---------------------------- MODULE Spec2Model ----------------------------
(***************************************************************************)
(* Real-time messaging core of the websocket chat backend: the connection  *)
(* hub (ConnectionManager), the auth handshake (setupWsAuth/handleWsAuth), *)
(* the frame dispatcher, the chat:send handler with its un-awaited         *)
(* delivery receipts, and the chat:read handler.                           *)
(*                                                                         *)
(* Node runs the handlers on one thread: a handler runs without            *)
(* interruption up to its next await.  Every await in the modelled code is *)
(* a store operation, so one action of a handler is "the awaited store     *)
(* operation takes effect and the handler continues synchronously up to    *)
(* its next await".  Handlers started by different frames interleave at    *)
(* these points (dispatch does not await the handler it starts).           *)
(*                                                                         *)
(* outbox[c] is the log of the frames handed to socket.send of the socket  *)
(* of connection c, in call order.                                         *)
(***************************************************************************)
EXTENDS Integers, Sequences, FiniteSets, TLC

\* ------------------------------------------------------------------ bounds
MaxConns == 3
MaxHubConns == 2
MaxAuths == 3
MaxPresenceCloses == 2
MaxDirectCalls == 3
MaxGroups == 1
MaxGroupCalls == 3
MaxTokens == 3
MaxAuthCalls == 4
MaxHistory == 3
MaxStamp == 3
MaxLimit == 2
MaxPages == 4
MaxMsgCalls == 2
MaxMsgRows == 3
MaxTicks == 1
MaxTypingFrames == 3
MaxReauths == 1
MaxReplySends == 2
MaxBlockCalls == 2
MaxHeartbeats == 3
MaxRaceCalls == 2
MaxForwardCalls == 2
MaxNoticeReads == 2
MaxOutsiderFrames == 2
MaxAnyTyping == 2
EDIT_WINDOW == 15
DELETE_WINDOW == 60
SEARCH_TAKE == 50
MaxFrames == 2
MaxSends == 2
MaxReceiptFrames == 2
MaxCloses == 1
MaxBulkFrames == 3

\* ------------------------------------------------------- program constants
AUTH_CLOSE_CODE == 4001

\* --------------------------------------------------------------- universes
Users == {"alice", "bob", "carol"}
NoUser == "none"
Convs == {"c1", "c2"}
NoConv == "none"
ConnIds == 1..MaxConns
InvalidToken == "invalid"

VARIABLES
    connections,      \* ConnectionManager.connections: connId -> [userId]
    userConnections,  \* ConnectionManager.userConnections: userId -> set of connIds
    readyState,       \* socket.readyState per connection id
    authTimeout,      \* socket.__authTimeout per connection id
    isAlive,          \* ws.isAlive per connection id
    outbox,           \* frames passed to socket.send, per connection id
    closeCalls,       \* codes passed to socket.close, per connection id, with the caller
    nextConn,         \* number of connections accepted so far (crypto.randomUUID is fresh)
    nextFrame,        \* number of inbound frames so far (client frame ids are fresh)
    lastFrame,        \* the inbound frame dispatch handled in the step just taken, if any
    everAuth,         \* history: the user a connection id was first authenticated as
    detached,         \* userId field of the Connection objects already removed from the map
    typingTimeouts,   \* typing.handler typingTimeouts: <<userId, conversationId>> -> timer
    typingTimers,     \* the armed setTimeout timers of handleTyping
    presenceT,        \* pending updatePresence(...).then(broadcastPresence) chains
    typingT,          \* running broadcastTyping invocations
    users,            \* store: User.isOnline
    participants,     \* store: ConversationParticipant rows, per conversation
    lastReadAt,       \* store: ConversationParticipant.lastReadAt
    messages,         \* store: Message rows in insertion order; id = index
    receipts,         \* store: MessageReceipt rows
    updatedAt,        \* store: Conversation.updatedAt
    clock,            \* server clock (new Date()), advanced by every store write
    sendH,            \* running handleChatSend invocations
    delivT,           \* running createDeliveryReceipt invocations
    readH,            \* running handleChatRead invocations
    closes,           \* number of socket close events so far
    directConvs,      \* store: DIRECT conversations with their two participant rows
    groupStore,       \* store: Group rows with the participant rows and messages of their conversation
    restClock,        \* database time (now()) of the REST services' writes
    restCalls,        \* number of REST service calls so far
    lastCall,         \* the REST service call made in the step just taken, with its result
    refreshTokens,    \* store: RefreshToken rows
    tokenSeq,         \* number of refresh token strings generated so far (randomUUID is fresh)
    authLog,          \* the auth service calls so far, with their position and result
    msgStore,         \* store: Message rows read and written by the REST message routes; id = index
    pager,            \* a client reading history: its query, the pages it got and its cursor
    blocks,           \* store: Block rows
    directCalls,      \* running getOrCreateDirectConversation calls that overlap
    heartbeat         \* history of the heartbeat: ticks so far, pings unanswered, connections that missed one

hubVars == <<connections, userConnections, detached>>
aliveVars == <<isAlive, heartbeat>>
sockVars == <<readyState, authTimeout, aliveVars, outbox, closeCalls>>
ghostVars == <<nextConn, nextFrame, everAuth, closes>>
authVars == <<refreshTokens, tokenSeq, authLog>>
msgVars == <<msgStore, pager>>
sideVars == <<msgVars, blocks>>
directVars == <<directConvs, directCalls>>
restVars == <<directVars, groupStore, restClock, restCalls, lastCall, authVars, sideVars>>
storeVars == <<users, participants, lastReadAt, messages, receipts, updatedAt, clock, restVars>>
typingVars == <<typingTimeouts, typingTimers>>
taskVars == <<sendH, delivT, readH, presenceT, typingT>>
\* no tick of the heartbeat yet
NoHeartbeat == [ticks |-> 0, waiting |-> {}, missed |-> {}]

vars == <<hubVars, sockVars, ghostVars, lastFrame, typingVars, storeVars, taskVars>>

\* ------------------------------------------------------------------ frames
NoFrame == [type |-> "", code |-> "", replyTo |-> 0, messageId |-> 0, userId |-> NoUser,
            conversationId |-> NoConv, isTyping |-> FALSE]

ErrorFrame(code, replyTo) == [NoFrame EXCEPT !.type = "error", !.code = code, !.replyTo = replyTo]
AuthErrorFrame(message) == [NoFrame EXCEPT !.type = "auth:error", !.code = message]
AuthSuccessFrame(u) == [NoFrame EXCEPT !.type = "auth:success", !.userId = u]
PresenceFrame(u, status) == [NoFrame EXCEPT !.type = "presence:update", !.code = status, !.userId = u]
ChatSentFrame(cmid, m) == [NoFrame EXCEPT !.type = "chat:sent", !.replyTo = cmid, !.messageId = m]
ChatReceiveFrame(m, sender) == [NoFrame EXCEPT !.type = "chat:receive", !.messageId = m, !.userId = sender]
ChatDeliveredFrame(m) == [NoFrame EXCEPT !.type = "chat:delivered", !.messageId = m]
TypingFrame(conv, u, isTyping) ==
    [NoFrame EXCEPT !.type = "chat:typing", !.conversationId = conv, !.userId = u,
                    !.isTyping = isTyping]
ChatReadFrame(m, reader) == [NoFrame EXCEPT !.type = "chat:read", !.messageId = m, !.userId = reader]

\* lastFrame after a step that is no dispatch
NoFrameYet == [conn |-> 0, id |-> 0, wf |-> FALSE, type |-> "", authed |-> FALSE, invoked |-> "none"]

\* socket.send(frame) on each socket in targets
SendTo(ob, targets, frame) ==
    [c \in DOMAIN ob |-> IF c \in targets THEN Append(ob[c], frame) ELSE ob[c]]

\* ------------------------------------------------------- ConnectionManager
Without(f, k) == [x \in DOMAIN f \ {k} |-> f[x]]
Put(f, k, v) == [x \in DOMAIN f \cup {k} |-> IF x = k THEN v ELSE f[x]]

getUserId(conns, c) == IF c \in DOMAIN conns THEN conns[c].userId ELSE NoUser

add(conns, c) == Put(conns, c, [userId |-> NoUser])

\* authenticate returns the new pair of indices
authenticate(conns, uconns, c, u) ==
    IF c \notin DOMAIN conns
    THEN [connections |-> conns, userConnections |-> uconns]
    ELSE [connections |-> Put(conns, c, [userId |-> u]),
          userConnections |->
              Put(uconns, u, (IF u \in DOMAIN uconns THEN uconns[u] ELSE {}) \cup {c})]

remove(conns, uconns, c) ==
    IF c \notin DOMAIN conns
    THEN [connections |-> conns, userConnections |-> uconns, userId |-> NoUser]
    ELSE LET u == conns[c].userId
             uc == IF u # NoUser /\ u \in DOMAIN uconns
                   THEN (IF uconns[u] \ {c} = {}
                         THEN Without(uconns, u)
                         ELSE Put(uconns, u, uconns[u] \ {c}))
                   ELSE uconns
         IN [connections |-> Without(conns, c), userConnections |-> uc, userId |-> u]

isUserOnline(uconns, u) == u \in DOMAIN uconns

\* the connection ids whose sockets getSocketsForUser returns
getSocketsForUser(conns, uconns, u) ==
    IF u \notin DOMAIN uconns THEN {} ELSE {c \in uconns[u] : c \in DOMAIN conns}

\* the sockets sendToUser writes to; it returns true iff this set is non-empty
sendToUserTargets(conns, uconns, rs, u) ==
    {c \in getSocketsForUser(conns, uconns, u) : rs[c] = "OPEN"}

sendToUser(ob, conns, uconns, rs, u, frame) ==
    SendTo(ob, sendToUserTargets(conns, uconns, rs, u), frame)

\* conn.userId read through a reference to the Connection object, which a
\* handler keeps after the connection has left the map
ConnUserId(c) == IF c \in DOMAIN connections THEN connections[c].userId ELSE detached[c]

\* ------------------------------------------------------------ store helpers
\* the outcomes of a store operation: it takes effect (TRUE) or rejects (FALSE)
StoreOutcomes == BOOLEAN

\* a membership check that lets everyone in
isParticipantUnchecked(conv, u) == TRUE

isParticipant(conv, u) == conv \in Convs /\ u \in participants[conv]

getParticipantUserIds(conv) == IF conv \in Convs THEN participants[conv] ELSE {}

MsgIds == 1..Len(messages)

\* the users sharing at least one conversation with u, u excluded
relatedUsers(u, convIds) == {v \in Users \ {u} : \E cv \in convIds : v \in participants[cv]}

\* -------------------------------------------------------------- connection
\* wss.on("connection"): a fresh connection id, add, setupWsAuth
Connect ==
    /\ nextConn < MaxConns
    /\ LET c == nextConn + 1 IN
        /\ nextConn' = c
        /\ connections' = add(connections, c)
        /\ readyState' = [readyState EXCEPT ![c] = "OPEN"]
        /\ isAlive' = [isAlive EXCEPT ![c] = TRUE]
        /\ authTimeout' = [authTimeout EXCEPT ![c] = "pending"]
    /\ lastFrame' = NoFrameYet
    /\ UNCHANGED <<userConnections, detached, outbox, closeCalls, nextFrame, heartbeat,
                   everAuth, closes, typingVars, storeVars, taskVars>>

\* socket.close(code) called by `who`: an OPEN socket starts closing
closeSocket(rs, c) == [rs EXCEPT ![c] = IF rs[c] = "OPEN" THEN "CLOSING" ELSE rs[c]]

\* whether the auth timer's callback finds the connection unauthenticated
timeoutFindsUnauth(conns, c) == getUserId(conns, c) = NoUser

\* the callback of the timer armed by setupWsAuth
AuthTimeout ==
    \E c \in ConnIds :
        /\ authTimeout[c] = "pending"
        /\ authTimeout' = [authTimeout EXCEPT ![c] = "fired"]
        /\ IF timeoutFindsUnauth(connections, c)
           THEN /\ outbox' = SendTo(outbox, {c}, AuthErrorFrame("Authentication timeout"))
                /\ closeCalls' = [closeCalls EXCEPT ![c] = Append(@, <<AUTH_CLOSE_CODE, "timer">>)]
                /\ readyState' = closeSocket(readyState, c)
           ELSE UNCHANGED <<outbox, closeCalls, readyState>>
        /\ lastFrame' = NoFrameYet
        /\ UNCHANGED <<hubVars, aliveVars, ghostVars, typingVars, storeVars, taskVars>>

\* socket.on("close"): the socket is closed (by the peer, by the network, or
\* after the server's own close call); remove, then presence if last
SocketClose(c) ==
    /\ readyState[c] \in {"OPEN", "CLOSING"}
    /\ closes' = closes + 1
    /\ readyState' = [readyState EXCEPT ![c] = "CLOSED"]
    /\ LET r == remove(connections, userConnections, c) IN
        /\ connections' = r.connections
        /\ userConnections' = r.userConnections
        /\ detached' = [detached EXCEPT ![c] = getUserId(connections, c)]
        /\ presenceT' = IF r.userId # NoUser /\ ~isUserOnline(r.userConnections, r.userId)
                        THEN Append(presenceT, [userId |-> r.userId, status |-> "offline",
                                                pc |-> "update"])
                        ELSE presenceT
    /\ lastFrame' = NoFrameYet
    /\ UNCHANGED <<authTimeout, aliveVars, outbox, closeCalls, nextConn, nextFrame,
                   everAuth, typingVars, storeVars, sendH, delivT, readH, typingT>>

\* ---------------------------------------------------------------- presence
RemoveAt(s, i) == SubSeq(s, 1, i - 1) \o SubSeq(s, i + 1, Len(s))

RECURSIVE sendToUsers(_, _, _, _, _, _)
\* sendToUser(uid, data) for each uid of the set us
sendToUsers(ob, conns, uconns, rs, us, frame) ==
    IF us = {} THEN ob
    ELSE LET u == CHOOSE x \in us : TRUE
         IN sendToUsers(sendToUser(ob, conns, uconns, rs, u, frame), conns, uconns, rs,
                        us \ {u}, frame)

\* updatePresence(userId, isOnline) takes effect; .then calls
\* broadcastPresence.  A rejected update ends the chain in its .catch, which
\* logs only.
PresenceUpdate ==
    \E i \in DOMAIN presenceT, ok \in StoreOutcomes :
        /\ presenceT[i].pc = "update"
        /\ IF ok
           THEN /\ users' = [users EXCEPT ![presenceT[i].userId] =
                                 [isOnline |-> presenceT[i].status = "online"]]
                /\ presenceT' = [presenceT EXCEPT ![i].pc = "broadcast"]
           ELSE /\ presenceT' = RemoveAt(presenceT, i)
                /\ UNCHANGED users
        /\ lastFrame' = NoFrameYet
        /\ UNCHANGED <<hubVars, sockVars, ghostVars, typingVars, participants, restVars, lastReadAt,
                       messages, receipts, updatedAt, clock, sendH, delivT, readH, typingT>>

\* broadcastPresence: the conversations of the user, the other participants of
\* these conversations (deduplicated), and sendToUser for each.  The two
\* queries read participant rows only, which no action of this module
\* writes, so they are taken together with the sends that follow them.
PresenceBroadcast ==
    \E i \in DOMAIN presenceT, ok \in StoreOutcomes :
        /\ presenceT[i].pc = "broadcast"
        /\ LET u == presenceT[i].userId
               convIds == {cv \in Convs : u \in participants[cv]}
           IN outbox' = IF ok
                        THEN sendToUsers(outbox, connections, userConnections, readyState,
                                         relatedUsers(u, convIds),
                                         PresenceFrame(u, presenceT[i].status))
                        ELSE outbox
        /\ presenceT' = RemoveAt(presenceT, i)
        /\ lastFrame' = NoFrameYet
        /\ UNCHANGED <<hubVars, readyState, authTimeout, aliveVars, closeCalls, ghostVars,
                       typingVars, storeVars, sendH, delivT, readH, typingT>>

\* ------------------------------------------------------------------- wsAuth
\* verifyAccessToken: the user a token was issued to, NoUser when it throws
verifyAccessToken(token) == IF token \in Users THEN token ELSE NoUser

\* a handleWsAuth that forgets to clear the timer
clearAuthTimeoutForgotten(t) == t

\* the timer handle after handleWsAuth's clearTimeout
clearAuthTimeout(t) == IF t = "pending" THEN "cleared" ELSE t

\* handleWsAuth(connectionId, socket, token)
handleWsAuth(c, token) ==
    LET u == verifyAccessToken(token) IN
    IF u # NoUser
    THEN LET r == authenticate(connections, userConnections, c, u) IN
         /\ connections' = r.connections
         /\ userConnections' = r.userConnections
         /\ authTimeout' = [authTimeout EXCEPT ![c] = clearAuthTimeout(@)]
         /\ outbox' = SendTo(outbox, {c}, AuthSuccessFrame(u))
         /\ presenceT' = Append(presenceT, [userId |-> u, status |-> "online",
                                            pc |-> "update"])
         /\ everAuth' = [everAuth EXCEPT ![c] = IF @ = NoUser THEN u ELSE @]
         /\ UNCHANGED <<detached, readyState, aliveVars, closeCalls, typingVars, storeVars,
                        sendH, delivT, readH, typingT>>
    ELSE /\ outbox' = SendTo(outbox, {c}, AuthErrorFrame("Invalid token"))
         /\ closeCalls' = [closeCalls EXCEPT ![c] = Append(@, <<AUTH_CLOSE_CODE, "auth">>)]
         /\ readyState' = closeSocket(readyState, c)
         /\ UNCHANGED <<hubVars, authTimeout, aliveVars, everAuth, typingVars, storeVars,
                        taskVars>>

\* --------------------------------------------------------------- dispatcher
FrameTypes == {"auth", "chat:send", "chat:read", "chat:typing", "other"}

\* sendError(socket, code, message, replyTo) as the whole effect of a dispatch
sendError(c, code, replyTo) ==
    /\ outbox' = SendTo(outbox, {c}, ErrorFrame(code, replyTo))
    /\ UNCHANGED <<hubVars, readyState, authTimeout, aliveVars, closeCalls, everAuth,
                   typingVars, storeVars, taskVars>>

\* a dispatcher without the authentication gate
notAuthenticatedSkipped(type, conns, c) == FALSE

\* the dispatcher's gate: a frame that is not 'auth' on a connection without userId
notAuthenticated(type, conns, c) == type # "auth" /\ getUserId(conns, c) = NoUser

\* handleChatSend up to its first await (sendMessage's isParticipant)
startChatSend(c, p, fid) ==
    /\ sendH' = IF ConnUserId(c) = NoUser THEN sendH
                ELSE Append(sendH, [conn |-> c, senderId |-> ConnUserId(c), cmid |-> fid,
                                    conv |-> p.conversationId, replyToId |-> p.replyToMessageId,
                                    pc |-> "isParticipant", msg |-> 0, now |-> 0])
    /\ UNCHANGED <<hubVars, sockVars, everAuth, typingVars, storeVars, delivT, readH,
                   presenceT, typingT>>

\* handleChatRead up to its first await (updateMany with lastReadAt = new Date())
startChatRead(c, p) ==
    /\ readH' = IF ConnUserId(c) = NoUser THEN readH
                ELSE Append(readH, [conn |-> c, userId |-> ConnUserId(c),
                                    conv |-> p.conversationId, messageId |-> p.messageId,
                                    pc |-> "updateMany", now |-> clock, target |-> 0,
                                    todo |-> {}])
    /\ UNCHANGED <<hubVars, sockVars, everAuth, typingVars, storeVars, sendH, delivT,
                   presenceT, typingT>>

\* typingTimeouts.delete(key)
deleteTimeout(map, key) == [k \in DOMAIN map \ {key} |-> map[k]]

\* clearTimeout(existing) for the entry of key, if there is one
clearExisting(timers, map, key) ==
    IF key \in DOMAIN map THEN {t \in timers : t.id # map[key]} ELSE timers

\* a broadcastTyping invocation waiting for getParticipantUserIds, made by
\* handleTyping for frame `frame` (timer = 0) or by the callback of timer
\* `timer` (frame = 0)
TypingTask(u, conv, isTyping, frame, timer) ==
    [userId |-> u, conv |-> conv, isTyping |-> isTyping, pc |-> "lookup", frame |-> frame,
     timer |-> timer]

\* handleTyping up to its first await (broadcastTyping's participant lookup);
\* the timer armed by frame fid is timer fid
startTyping(c, p) ==
    LET u == ConnUserId(c)
        key == <<u, p.conversationId>>
        fid == nextFrame + 1
    IN
    /\ IF u = NoUser THEN UNCHANGED <<typingTimeouts, typingTimers, typingT>>
       ELSE /\ typingTimers' =
                   clearExisting(typingTimers, typingTimeouts, key)
                       \cup (IF p.isTyping THEN {[id |-> fid, key |-> key, conn |-> c]} ELSE {})
            /\ typingTimeouts' =
                   IF p.isTyping THEN (key :> fid) @@ deleteTimeout(typingTimeouts, key)
                   ELSE deleteTimeout(typingTimeouts, key)
            /\ typingT' = Append(typingT, TypingTask(u, p.conversationId, p.isTyping, fid, 0))
    /\ UNCHANGED <<hubVars, sockVars, everAuth, storeVars, sendH, delivT, readH, presenceT>>

\* the callback of an armed timer runs: broadcastTyping(conn.userId, conv, false)
\* up to its await, then typingTimeouts.delete(timeoutKey)
TypingTimerFire ==
    \E t \in typingTimers :
        /\ typingTimers' = typingTimers \ {t}
        /\ typingT' = Append(typingT, TypingTask(ConnUserId(t.conn), t.key[2], FALSE, 0, t.id))
        /\ typingTimeouts' = deleteTimeout(typingTimeouts, t.key)
        /\ lastFrame' = NoFrameYet
        /\ UNCHANGED <<hubVars, sockVars, ghostVars, storeVars, sendH, delivT, readH, presenceT>>

\* broadcastTyping after getParticipantUserIds: the frame goes to the other
\* participants; a rejected lookup is logged
TypingBroadcast ==
    \E i \in DOMAIN typingT, ok \in StoreOutcomes :
        /\ typingT[i].pc = "lookup"
        /\ IF ok
           THEN /\ outbox' = sendToUsers(outbox, connections, userConnections, readyState,
                                         getParticipantUserIds(typingT[i].conv)
                                             \ {typingT[i].userId},
                                         TypingFrame(typingT[i].conv, typingT[i].userId,
                                                     typingT[i].isTyping))
                /\ typingT' = [typingT EXCEPT ![i].pc = "done"]
           ELSE /\ typingT' = [typingT EXCEPT ![i].pc = "failed"]
                /\ UNCHANGED outbox
        /\ lastFrame' = NoFrameYet
        /\ UNCHANGED <<hubVars, readyState, authTimeout, aliveVars, closeCalls, ghostVars,
                       typingVars, storeVars, sendH, delivT, readH, presenceT>>

\* the handler dispatch routes a frame to, "none" when it replies with an error
routedTo(conns, c, wf, type, pok) ==
    IF ~wf \/ notAuthenticated(type, conns, c) \/ ~pok \/ type = "other" THEN "none" ELSE type

\* dispatch(connectionId, socket, raw): wf = the frame parses and has the envelope
\* shape, pok = its payload satisfies the schema of its type, p = the payload
dispatch(c, wf, type, pok, p) ==
    /\ c \in DOMAIN connections
    /\ readyState[c] \in {"OPEN", "CLOSING"}
    /\ LET fid == nextFrame + 1 IN
        /\ nextFrame' = fid
        /\ lastFrame' = [conn |-> c, id |-> fid, wf |-> wf, type |-> type,
                         authed |-> getUserId(connections, c) # NoUser,
                         invoked |-> routedTo(connections, c, wf, type, pok)]
        /\ IF ~wf THEN sendError(c, "INVALID_MESSAGE", 0)
           ELSE IF notAuthenticated(type, connections, c)
                THEN sendError(c, "NOT_AUTHENTICATED", fid)
           ELSE IF type = "other" THEN sendError(c, "UNKNOWN_TYPE", fid)
           ELSE IF ~pok THEN sendError(c, "INVALID_PAYLOAD", fid)
           ELSE IF type = "auth" THEN handleWsAuth(c, p.token)
           ELSE IF type = "chat:send" THEN startChatSend(c, p, fid)
           ELSE IF type = "chat:read" THEN startChatRead(c, p)
           ELSE startTyping(c, p)
    /\ UNCHANGED <<nextConn, closes>>

\* ---------------------------------------------------------------- chat:send
\* the catch block of handleChatSend: SEND_FAILED to the sender's socket
sendFailed(i) ==
    outbox' = SendTo(outbox, {sendH[i].conn}, ErrorFrame("SEND_FAILED", sendH[i].cmid))

\* sendMessage: isParticipant resolves; ForbiddenError when it is false
SendIsParticipant ==
    \E i \in DOMAIN sendH, ok \in StoreOutcomes :
        /\ sendH[i].pc = "isParticipant"
        /\ IF ok /\ isParticipant(sendH[i].conv, sendH[i].senderId)
           THEN /\ sendH' = [sendH EXCEPT ![i].pc = IF sendH[i].replyToId # 0
                                                     THEN "findReply" ELSE "create"]
                /\ UNCHANGED outbox
           ELSE /\ sendH' = [sendH EXCEPT ![i].pc = "failed"]
                /\ sendFailed(i)
        /\ lastFrame' = NoFrameYet
        /\ UNCHANGED <<hubVars, readyState, authTimeout, aliveVars, closeCalls, ghostVars,
                       typingVars, storeVars, delivT, readH, presenceT, typingT>>

\* a lookup that accepts a message of any conversation
replyFoundAnywhere(msgs, replyToId, conv) == replyToId \in DOMAIN msgs

\* replyMsg && replyMsg.conversationId === conversationId
replyFound(msgs, replyToId, conv) ==
    /\ replyToId \in DOMAIN msgs
    /\ msgs[replyToId].conversationId = conv

\* sendMessage: the replyTo message is looked up; NotFoundError when it is
\* missing or belongs to another conversation
SendFindReply ==
    \E i \in DOMAIN sendH, ok \in StoreOutcomes :
        /\ sendH[i].pc = "findReply"
        /\ IF ok /\ replyFound(messages, sendH[i].replyToId, sendH[i].conv)
           THEN /\ sendH' = [sendH EXCEPT ![i].pc = "create"]
                /\ UNCHANGED outbox
           ELSE /\ sendH' = [sendH EXCEPT ![i].pc = "failed"]
                /\ sendFailed(i)
        /\ lastFrame' = NoFrameYet
        /\ UNCHANGED <<hubVars, readyState, authTimeout, aliveVars, closeCalls, ghostVars,
                       typingVars, storeVars, delivT, readH, presenceT, typingT>>

\* sendMessage: prisma.message.create takes effect (createdAt = now); the
\* continuation evaluates new Date() for the conversation update
SendCreate ==
    \E i \in DOMAIN sendH, ok \in StoreOutcomes :
        /\ sendH[i].pc = "create"
        /\ IF ok
           THEN /\ clock' = clock + 1
                /\ messages' = Append(messages, [conversationId |-> sendH[i].conv,
                                                 senderId |-> sendH[i].senderId,
                                                 createdAt |-> clock + 1,
                                                 replyToId |-> sendH[i].replyToId])
                /\ sendH' = [sendH EXCEPT ![i].pc = "update", ![i].msg = Len(messages) + 1,
                                          ![i].now = clock + 1]
                /\ UNCHANGED outbox
           ELSE /\ sendH' = [sendH EXCEPT ![i].pc = "failed"]
                /\ sendFailed(i)
                /\ UNCHANGED <<clock, messages>>
        /\ lastFrame' = NoFrameYet
        /\ UNCHANGED <<hubVars, readyState, authTimeout, aliveVars, closeCalls, ghostVars,
                       typingVars, users, participants, restVars, lastReadAt, receipts, updatedAt,
                       delivT, readH, presenceT, typingT>>

\* sendMessage: prisma.conversation.update takes effect and sendMessage
\* returns; handleChatSend writes the chat:sent ACK to the sender's socket
SendUpdate ==
    \E i \in DOMAIN sendH, ok \in StoreOutcomes :
        /\ sendH[i].pc = "update"
        /\ IF ok
           THEN /\ updatedAt' = [updatedAt EXCEPT ![sendH[i].conv] = sendH[i].now]
                /\ outbox' = SendTo(outbox, {sendH[i].conn},
                                    ChatSentFrame(sendH[i].cmid, sendH[i].msg))
                /\ sendH' = [sendH EXCEPT ![i].pc = "participants"]
           ELSE /\ sendH' = [sendH EXCEPT ![i].pc = "failed"]
                /\ sendFailed(i)
                /\ UNCHANGED updatedAt
        /\ lastFrame' = NoFrameYet
        /\ UNCHANGED <<hubVars, readyState, authTimeout, aliveVars, closeCalls, ghostVars,
                       typingVars, users, participants, restVars, lastReadAt, messages, receipts,
                       clock, delivT, readH, presenceT, typingT>>

\* a fan-out that starts createDeliveryReceipt for every recipient
deliveredToEveryone(conv, sender) == getParticipantUserIds(conv) \ {sender}

\* the recipients of the fan-out whose sendToUser returns true
deliveredTo(conv, sender) ==
    {r \in getParticipantUserIds(conv) \ {sender} :
        sendToUserTargets(connections, userConnections, readyState, r) # {}}

\* handleChatSend: getParticipantUserIds resolves; chat:receive to every
\* participant except the sender, createDeliveryReceipt (not awaited) for
\* each recipient whose sendToUser returned true
SendFanout ==
    \E i \in DOMAIN sendH, ok \in StoreOutcomes :
        /\ sendH[i].pc = "participants"
        /\ IF ok
           THEN LET sender == ConnUserId(sendH[i].conn) IN
                /\ outbox' = sendToUsers(outbox, connections, userConnections, readyState,
                                         getParticipantUserIds(sendH[i].conv) \ {sender},
                                         ChatReceiveFrame(sendH[i].msg, sender))
                /\ delivT' = delivT \cup
                       {[messageId |-> sendH[i].msg, senderId |-> sender, recipientId |-> r,
                         pc |-> "upsert"] : r \in deliveredTo(sendH[i].conv, sender)}
                /\ sendH' = [sendH EXCEPT ![i].pc = "done"]
           ELSE /\ sendH' = [sendH EXCEPT ![i].pc = "failed"]
                /\ sendFailed(i)
                /\ UNCHANGED delivT
        /\ lastFrame' = NoFrameYet
        /\ UNCHANGED <<hubVars, readyState, authTimeout, aliveVars, closeCalls, ghostVars,
                       typingVars, storeVars, readH, presenceT, typingT>>

\* ----------------------------------------------------------------- receipts
HasReceipt(rs, m, u) == \E r \in rs : r.messageId = m /\ r.userId = u

\* an upsert whose update clause writes DELIVERED over the existing row
deliveryUpsertOverwrites(rs, m, u) ==
    {r \in rs : ~(r.messageId = m /\ r.userId = u)}
        \cup {[messageId |-> m, userId |-> u, status |-> "DELIVERED"]}

\* createDeliveryReceipt's upsert: create DELIVERED, update {}
deliveryUpsert(rs, m, u) ==
    IF HasReceipt(rs, m, u) THEN rs
    ELSE rs \cup {[messageId |-> m, userId |-> u, status |-> "DELIVERED"]}

\* handleChatRead's upsert: create READ, update status READ
readUpsert(rs, m, u) ==
    {r \in rs : ~(r.messageId = m /\ r.userId = u)}
        \cup {[messageId |-> m, userId |-> u, status |-> "READ"]}

\* createDeliveryReceipt: the upsert takes effect, then chat:delivered to the
\* sender; a rejected upsert is logged only
DeliverUpsert ==
    \E t \in delivT, ok \in StoreOutcomes :
        /\ t.pc = "upsert"
        /\ IF ok
           THEN /\ receipts' = deliveryUpsert(receipts, t.messageId, t.recipientId)
                /\ outbox' = sendToUser(outbox, connections, userConnections, readyState,
                                        t.senderId, ChatDeliveredFrame(t.messageId))
                /\ delivT' = (delivT \ {t}) \cup {[t EXCEPT !.pc = "done"]}
           ELSE /\ delivT' = (delivT \ {t}) \cup {[t EXCEPT !.pc = "failed"]}
                /\ UNCHANGED <<receipts, outbox>>
        /\ lastFrame' = NoFrameYet
        /\ UNCHANGED <<hubVars, readyState, authTimeout, aliveVars, closeCalls, ghostVars,
                       typingVars, users, participants, restVars, lastReadAt, messages, updatedAt,
                       clock, sendH, readH, presenceT, typingT>>

\* ---------------------------------------------------------------- chat:read
\* handleChatRead: updateMany sets lastReadAt of the requester's participant
\* row; a rejected store operation ends the handler in its catch block, which
\* logs only
ReadUpdateMany ==
    \E i \in DOMAIN readH, ok \in StoreOutcomes :
        /\ readH[i].pc = "updateMany"
        /\ lastReadAt' = IF ok /\ isParticipant(readH[i].conv, readH[i].userId)
                         THEN [lastReadAt EXCEPT ![readH[i].conv][readH[i].userId] = readH[i].now]
                         ELSE lastReadAt
        /\ readH' = [readH EXCEPT ![i].pc = IF ok THEN "findTarget" ELSE "failed"]
        /\ lastFrame' = NoFrameYet
        /\ UNCHANGED <<hubVars, sockVars, ghostVars, typingVars, users, participants, restVars,
                       messages, receipts, updatedAt, clock, sendH, delivT, presenceT, typingT>>

\* handleChatRead: the target message; return when it is missing or belongs
\* to another conversation
ReadFindTarget ==
    \E i \in DOMAIN readH, ok \in StoreOutcomes :
        /\ readH[i].pc = "findTarget"
        /\ readH' = IF ~ok THEN [readH EXCEPT ![i].pc = "failed"]
                     ELSE IF readH[i].messageId \in MsgIds
                        /\ messages[readH[i].messageId].conversationId = readH[i].conv
                     THEN [readH EXCEPT ![i].pc = "findUnread",
                                        ![i].target = messages[readH[i].messageId].createdAt]
                     ELSE [readH EXCEPT ![i].pc = "done"]
        /\ lastFrame' = NoFrameYet
        /\ UNCHANGED <<hubVars, sockVars, ghostVars, typingVars, storeVars, sendH, delivT,
                       presenceT, typingT>>

\* a query that stops before the target message
unreadMessagesBeforeTarget(conv, target, u) ==
    {m \in MsgIds :
        /\ messages[m].conversationId = conv
        /\ messages[m].createdAt < target
        /\ messages[m].senderId # u
        /\ ~\E r \in receipts : r.messageId = m /\ r.userId = u /\ r.status = "READ"}

\* the messages of conv up to createdAt = target, not sent by u, without a
\* READ receipt of u
unreadMessages(conv, target, u) ==
    {m \in MsgIds :
        /\ messages[m].conversationId = conv
        /\ messages[m].createdAt <= target
        /\ messages[m].senderId # u
        /\ ~\E r \in receipts : r.messageId = m /\ r.userId = u /\ r.status = "READ"}

\* handleChatRead: findMany of the unread messages
ReadFindUnread ==
    \E i \in DOMAIN readH, ok \in StoreOutcomes :
        /\ readH[i].pc = "findUnread"
        /\ LET todo == unreadMessages(readH[i].conv, readH[i].target, ConnUserId(readH[i].conn))
           IN readH' = IF ~ok THEN [readH EXCEPT ![i].pc = "failed"]
                       ELSE [readH EXCEPT ![i].todo = todo,
                                          ![i].pc = IF todo = {} THEN "done" ELSE "upsert"]
        /\ lastFrame' = NoFrameYet
        /\ UNCHANGED <<hubVars, sockVars, ghostVars, typingVars, storeVars, sendH, delivT,
                       presenceT, typingT>>

\* the rows findMany may return first: it has no orderBy, so any of those left
nextUnread(todo) == todo

\* handleChatRead: one turn of the loop: the READ upsert of the next message
\* takes effect, then chat:read to its sender.  findMany has no orderBy, so
\* the next message is any of those left.
ReadUpsert ==
    \E i \in DOMAIN readH, ok \in StoreOutcomes :
        /\ readH[i].pc = "upsert"
        /\ \E m \in nextUnread(readH[i].todo) :
            LET u == ConnUserId(readH[i].conn) IN
            IF ok
            THEN /\ receipts' = readUpsert(receipts, m, u)
                 /\ outbox' = sendToUser(outbox, connections, userConnections, readyState,
                                         messages[m].senderId, ChatReadFrame(m, u))
                 /\ readH' = [readH EXCEPT ![i].todo = @ \ {m},
                                           ![i].pc = IF readH[i].todo = {m} THEN "done"
                                                     ELSE "upsert"]
            ELSE /\ readH' = [readH EXCEPT ![i].pc = "failed"]
                 /\ UNCHANGED <<receipts, outbox>>
        /\ lastFrame' = NoFrameYet
        /\ UNCHANGED <<hubVars, readyState, authTimeout, aliveVars, closeCalls, ghostVars,
                       typingVars, users, participants, restVars, lastReadAt, messages, updatedAt,
                       clock, sendH, delivT, presenceT, typingT>>

\* ------------------------------------------------------------ REST services
\* The services run one call at a time here (sequential requests), so a call
\* is one step: its store operations in program order.  The conversations of
\* these services are other rows than those of c1 and c2 above.
UnknownUser == "dave"

NoCall == [op |-> "", actor |-> NoUser, group |-> 0, target |-> NoUser, code |-> "",
           message |-> "", id |-> 0]

\* no client is paging
NoPager == [query |-> "", conv |-> NoConv, userId |-> NoUser, limit |-> 0, cursor |-> 0,
            pages |-> <<>>, hasMore |-> FALSE, code |-> ""]

InitRestWith(history) ==
    /\ directConvs = {}
    /\ directCalls = <<>>
    /\ groupStore = <<>>
    /\ restClock = 0
    /\ restCalls = 0
    /\ lastCall = NoCall
    /\ refreshTokens = {}
    /\ tokenSeq = 0
    /\ authLog = <<>>
    /\ msgStore = history
    /\ pager = NoPager
    /\ blocks = {}

InitRest == InitRestWith(<<>>)

chatVars == <<hubVars, sockVars, ghostVars, lastFrame, typingVars, users, participants,
              lastReadAt, messages, receipts, updatedAt, clock, taskVars>>

\* the role of a participant row created without one (the schema's default)
roleDefault == "MEMBER"

\* a findFirst that never finds the conversation
existingDirectNone(ds, a, b) == {}

\* findFirst: the DIRECT conversations having a participant row of a and one of b
existingDirect(ds, a, b) ==
    {d \in ds : /\ \E i \in DOMAIN d.participants : d.participants[i] = a
                /\ \E i \in DOMAIN d.participants : d.participants[i] = b}

\* getOrCreateDirectConversation without its first check
getOrCreateDirectUnchecked(userId1, userId2) ==
    LET call == [NoCall EXCEPT !.op = "getOrCreateDirectConversation", !.actor = userId1,
                               !.target = userId2]
        id == Cardinality(directConvs) + 1
    IN
    IF existingDirect(directConvs, userId1, userId2) # {}
    THEN /\ \E d \in existingDirect(directConvs, userId1, userId2) :
                lastCall' = [call EXCEPT !.code = "OK", !.id = d.id]
         /\ UNCHANGED directConvs
    ELSE IF userId2 \notin Users
    THEN /\ lastCall' = [call EXCEPT !.code = "NOT_FOUND", !.message = "User not found"]
         /\ UNCHANGED directConvs
    ELSE /\ directConvs' = directConvs
                \cup {[id |-> id, participants |-> <<userId1, userId2>>,
                       roles |-> <<roleDefault, roleDefault>>]}
         /\ lastCall' = [call EXCEPT !.code = "OK", !.id = id]

getOrCreateDirectConversation(userId1, userId2) ==
    LET call == [NoCall EXCEPT !.op = "getOrCreateDirectConversation", !.actor = userId1,
                               !.target = userId2]
    IN
    IF userId1 = userId2
    THEN /\ lastCall' = [call EXCEPT !.code = "VALIDATION_ERROR",
                                     !.message = "Cannot create conversation with yourself"]
         /\ UNCHANGED directConvs
    ELSE IF existingDirect(directConvs, userId1, userId2) # {}
    THEN /\ \E d \in existingDirect(directConvs, userId1, userId2) :
                lastCall' = [call EXCEPT !.code = "OK", !.id = d.id]
         /\ UNCHANGED directConvs
    ELSE IF userId2 \notin Users
    THEN /\ lastCall' = [call EXCEPT !.code = "NOT_FOUND", !.message = "User not found"]
         /\ UNCHANGED directConvs
    ELSE LET id == Cardinality(directConvs) + 1 IN
         /\ directConvs' = directConvs
                \cup {[id |-> id, participants |-> <<userId1, userId2>>,
                       roles |-> <<roleDefault, roleDefault>>]}
         /\ lastCall' = [call EXCEPT !.code = "OK", !.id = id]

\* ------------------------------------------------------------------- groups
\* groupStore[g] is the Group row g (name, description) with the participant
\* rows (members) and the messages of its conversation
Roles == {"ADMIN", "MEMBER"}

memberIdsOf(ms) == {m.userId : m \in ms}

\* the result of a service call: the store it leaves and what it returns or throws
Result(store, code, message) == [store |-> store, code |-> code, message |-> message]

\* messageService.sendMessage(senderId, conversationId, content, "SYSTEM") on
\* the conversation of group g, continuing after the store `gs`: ForbiddenError
\* when the sender has no participant row
sendSystemMessage(gs, g, senderId, content, about) ==
    IF senderId \notin memberIdsOf(gs[g].members)
    THEN Result(gs, "FORBIDDEN", "Not a participant of this conversation")
    ELSE Result([gs EXCEPT ![g].messages =
                     Append(@, [senderId |-> senderId, contentType |-> "SYSTEM",
                                content |-> content, about |-> about])],
                "OK", "")

\* a guard that lets every caller through
requireAdminSkipped(ms, userId) == ""

\* requireAdmin: the message of the ForbiddenError it throws, "" when it passes
requireAdmin(ms, userId) ==
    IF userId \notin memberIdsOf(ms) THEN "Not a member of this group"
    ELSE IF \E m \in ms : m.userId = userId /\ m.role # "ADMIN" THEN "Admin privileges required"
    ELSE ""

createGroup(gs, creatorId, memberIds, now) ==
    LET uniqueMembers == {creatorId} \cup memberIds
        g == Len(gs) + 1
        created == Append(gs, [name |-> "n1", description |-> "d1",
                               members |-> {[userId |-> u,
                                             role |-> IF u = creatorId THEN "ADMIN" ELSE "MEMBER",
                                             joinedAt |-> now] : u \in uniqueMembers},
                               messages |-> <<>>])
    IN
    IF memberIds = {} THEN Result(gs, "VALIDATION_ERROR", "Group must have at least one other member")
    ELSE IF ~(uniqueMembers \subseteq Users)
    THEN Result(gs, "VALIDATION_ERROR", "One or more users not found")
    ELSE sendSystemMessage(created, g, creatorId, "created the group", NoUser)

updateGroupInfo(gs, userId, g, data) ==
    IF g \notin DOMAIN gs THEN Result(gs, "NOT_FOUND", "Group not found")
    ELSE IF requireAdmin(gs[g].members, userId) # ""
    THEN Result(gs, "FORBIDDEN", requireAdmin(gs[g].members, userId))
    ELSE LET updated == IF data.hasName THEN [gs EXCEPT ![g].name = data.value]
                        ELSE [gs EXCEPT ![g].description = data.value]
         IN IF data.hasName
            THEN sendSystemMessage(updated, g, userId, "changed the group name", NoUser)
            ELSE Result(updated, "OK", "")

addMembers(gs, adminUserId, g, memberIds, now) ==
    IF g \notin DOMAIN gs THEN Result(gs, "NOT_FOUND", "Group not found")
    ELSE IF requireAdmin(gs[g].members, adminUserId) # ""
    THEN Result(gs, "FORBIDDEN", requireAdmin(gs[g].members, adminUserId))
    ELSE LET newMemberIds == memberIds \ memberIdsOf(gs[g].members) IN
         IF newMemberIds = {}
         THEN Result(gs, "VALIDATION_ERROR", "All users are already members")
         ELSE sendSystemMessage(
                  [gs EXCEPT ![g].members =
                       @ \cup {[userId |-> u, role |-> "MEMBER", joinedAt |-> now]
                                  : u \in newMemberIds}],
                  g, adminUserId, "added", NoUser)

\* the rows findFirst ... orderBy joinedAt asc may return: those of least joinedAt
oldestMembers(ms) == {m \in ms : \A o \in ms : m.joinedAt <= o.joinedAt}

\* the participant rows after the row of targetUserId was deleted and, when it
\* was an ADMIN row, nextAdmin was promoted
afterRemoval(ms, targetUserId, nextAdmin) ==
    LET rest == {m \in ms : m.userId # targetUserId} IN
    IF (\E m \in ms : m.userId = targetUserId /\ m.role = "ADMIN") /\ rest # {}
    THEN {IF m = nextAdmin THEN [m EXCEPT !.role = "ADMIN"] ELSE m : m \in rest}
    ELSE rest

\* nextAdmin is the row findFirst returned (any row when none is looked up)
removeMember(gs, actorUserId, g, targetUserId, nextAdmin) ==
    IF g \notin DOMAIN gs THEN Result(gs, "NOT_FOUND", "Group not found")
    ELSE IF actorUserId # targetUserId /\ requireAdmin(gs[g].members, actorUserId) # ""
    THEN Result(gs, "FORBIDDEN", requireAdmin(gs[g].members, actorUserId))
    ELSE IF targetUserId \notin memberIdsOf(gs[g].members)
    THEN Result(gs, "NOT_FOUND", "User is not a member")
    ELSE sendSystemMessage(
             [gs EXCEPT ![g].members = afterRemoval(@, targetUserId, nextAdmin)],
             g, actorUserId,
             IF actorUserId = targetUserId THEN "left the group" ELSE "removed",
             targetUserId)

updateMemberRole(gs, adminUserId, g, targetUserId, role) ==
    IF g \notin DOMAIN gs THEN Result(gs, "NOT_FOUND", "Group not found")
    ELSE IF requireAdmin(gs[g].members, adminUserId) # ""
    THEN Result(gs, "FORBIDDEN", requireAdmin(gs[g].members, adminUserId))
    ELSE IF targetUserId \notin memberIdsOf(gs[g].members)
    THEN Result(gs, "NOT_FOUND", "User is not a member")
    ELSE Result([gs EXCEPT ![g].members =
                     {IF m.userId = targetUserId THEN [m EXCEPT !.role = role] ELSE m : m \in @}],
                "OK", "")

\* one REST call of a group service with result r
groupCall(op, actor, g, target, r) ==
    /\ restCalls' = restCalls + 1
    /\ restClock' = restClock + 1
    /\ groupStore' = r.store
    /\ lastCall' = [op |-> op, actor |-> actor, group |-> g, target |-> target,
                    code |-> r.code, message |-> r.message, id |-> 0]
    /\ UNCHANGED <<directVars, authVars, sideVars, chatVars>>

\* --------------------------------------------------------------------- auth
\* an auth service call: the refresh token presented, where the call stands
\* ("delete", "deleteExpired", "create", "done"), and what it returned or threw
AuthCall(op, token, userId, pc, code, refreshToken) ==
    [op |-> op, token |-> token, userId |-> userId, pc |-> pc, code |-> code,
     refreshToken |-> refreshToken]

\* findUnique({ where: { token } })
storedToken(rows, token) == {r \in rows : r.token = token}

\* a rotation that leaves the presented row in the store
deleteTokenKept(rows, token) == rows

\* refreshToken.delete of the presented row
deleteToken(rows, token) == rows \ storedToken(rows, token)

\* a delete that succeeds whether or not the row is there (deleteMany)
deleteNeverRejected(rows, token) == FALSE

\* refreshToken.delete throws when the row to delete does not exist
deleteRejected(rows, token) == storedToken(rows, token) = {}

\* the refresh calls that have passed findUnique and have yet to create a pair
pendingRefresh == {i \in DOMAIN authLog : authLog[i].pc \in {"delete", "create"}}

\* createTokenPair: a fresh token string, stored for the user
createTokenPair(rows, userId) ==
    rows \cup {[token |-> tokenSeq + 1, userId |-> userId, expired |-> FALSE]}

\* login(email, password) of user u, in one step
AuthLogin(u, valid) ==
    /\ IF valid
       THEN /\ tokenSeq + Cardinality(pendingRefresh) < MaxTokens
            /\ refreshTokens' = createTokenPair(refreshTokens, u)
            /\ tokenSeq' = tokenSeq + 1
            /\ authLog' = Append(authLog, AuthCall("login", 0, u, "done", "OK", tokenSeq + 1))
       ELSE /\ authLog' = Append(authLog, AuthCall("login", 0, u, "done",
                                                   "AUTHENTICATION_ERROR", 0))
            /\ UNCHANGED <<refreshTokens, tokenSeq>>
    /\ UNCHANGED <<directVars, groupStore, restClock, restCalls, lastCall, sideVars, chatVars>>

\* refresh(refreshToken) up to its first write: findUnique and the test of
\* `!stored || stored.expiresAt < new Date()`
AuthRefreshFind(token) ==
    /\ LET stored == storedToken(refreshTokens, token) IN
       IF stored = {}
       THEN authLog' = Append(authLog, AuthCall("refresh", token, NoUser, "done",
                                                "AUTHENTICATION_ERROR", 0))
       ELSE \E r \in stored :
                IF r.expired
                THEN authLog' = Append(authLog, AuthCall("refresh", token, r.userId,
                                                         "deleteExpired", "", 0))
                ELSE /\ tokenSeq + Cardinality(pendingRefresh) < MaxTokens
                     /\ authLog' = Append(authLog, AuthCall("refresh", token, r.userId,
                                                            "delete", "", 0))
    /\ UNCHANGED <<refreshTokens, tokenSeq>>
    /\ UNCHANGED <<directVars, groupStore, restClock, restCalls, lastCall, sideVars, chatVars>>

\* refreshToken.delete({ where: { id: stored.id } }) takes effect; the store
\* rejects it when the row is gone
AuthRefreshDelete ==
    \E i \in DOMAIN authLog :
        /\ authLog[i].pc \in {"delete", "deleteExpired"}
        /\ IF deleteRejected(refreshTokens, authLog[i].token)
           THEN /\ authLog' = [authLog EXCEPT ![i].pc = "done", ![i].code = "INTERNAL_ERROR"]
                /\ UNCHANGED refreshTokens
           ELSE /\ refreshTokens' = deleteToken(refreshTokens, authLog[i].token)
                /\ authLog' = IF authLog[i].pc = "deleteExpired"
                              THEN [authLog EXCEPT ![i].pc = "done",
                                                   ![i].code = "AUTHENTICATION_ERROR"]
                              ELSE [authLog EXCEPT ![i].pc = "create"]
        /\ UNCHANGED tokenSeq
        /\ UNCHANGED <<directVars, groupStore, restClock, restCalls, lastCall, sideVars, chatVars>>

\* createTokenPair of a refresh call takes effect and the pair is returned
AuthRefreshCreate ==
    \E i \in DOMAIN authLog :
        /\ authLog[i].pc = "create"
        /\ refreshTokens' = createTokenPair(refreshTokens, authLog[i].userId)
        /\ tokenSeq' = tokenSeq + 1
        /\ authLog' = [authLog EXCEPT ![i].pc = "done", ![i].code = "OK",
                                      ![i].refreshToken = tokenSeq + 1]
        /\ UNCHANGED <<directVars, groupStore, restClock, restCalls, lastCall, sideVars, chatVars>>

\* logout(refreshToken): deleteMany
AuthLogout(token) ==
    /\ refreshTokens' = refreshTokens \ storedToken(refreshTokens, token)
    /\ authLog' = Append(authLog, AuthCall("logout", token, NoUser, "done", "OK", 0))
    /\ UNCHANGED tokenSeq
    /\ UNCHANGED <<directVars, groupStore, restClock, restCalls, lastCall, sideVars, chatVars>>

\* time passes beyond the expiresAt of a stored token
AuthExpire ==
    \E r \in refreshTokens :
        /\ ~r.expired
        /\ refreshTokens' = (refreshTokens \ {r}) \cup {[r EXCEPT !.expired = TRUE]}
        /\ UNCHANGED <<tokenSeq, authLog>>
        /\ UNCHANGED <<directVars, groupStore, restClock, restCalls, lastCall, sideVars, chatVars>>

\* ----------------------------------------------------------------- history
\* a Message row of msgStore; deletedAt, editedAt and replyToId are 0 for null
MessageRow(conv, sender, content, contentType, createdAt, deletedAt) ==
    [conversationId |-> conv, senderId |-> sender, content |-> content,
     contentType |-> contentType, createdAt |-> createdAt, deletedAt |-> deletedAt,
     editedAt |-> 0, replyToId |-> 0]

DELETED_PLACEHOLDER == "This message was deleted"

Reverse(sq) == [i \in 1..Len(sq) |-> sq[Len(sq) + 1 - i]]

Range(sq) == {sq[i] : i \in DOMAIN sq}

\* where: { conversationId, deletedAt: null }
visibleMessages(store, conv) ==
    {m \in DOMAIN store : store[m].conversationId = conv /\ store[m].deletedAt = 0}

\* orderBy: { createdAt: "desc" }: the orders in which the store may return
\* the rows `ids`; rows of equal createdAt come in any order
descOrders(store, ids) ==
    {sq \in [1..Cardinality(ids) -> ids] :
        /\ \A i, j \in DOMAIN sq : i # j => sq[i] # sq[j]
        /\ \A i, j \in DOMAIN sq : i < j => store[sq[i]].createdAt >= store[sq[j]].createdAt}

\* cursor: { id: cursor }, skip: 1 under orderBy createdAt desc: the rows whose
\* createdAt is not after the cursor row's, less the first of them
afterCursor(store, ordered, cursor) ==
    IF cursor = 0 THEN ordered
    ELSE LET from == SelectSeq(ordered, LAMBDA m : store[m].createdAt <= store[cursor].createdAt)
         IN IF from = <<>> THEN <<>> ELSE Tail(from)

\* getMessages after the participant check, the store returning `ordered`:
\* take limit + 1, pop the extra row, reverse, nextCursor = messages[0].id
getMessages(store, ordered, cursor, limit) ==
    LET sel == afterCursor(store, ordered, cursor)
        found == SubSeq(sel, 1, IF Len(sel) < limit + 1 THEN Len(sel) ELSE limit + 1)
        hasMore == Len(found) > limit
        page == Reverse(IF hasMore THEN SubSeq(found, 1, Len(found) - 1) ELSE found)
    IN [messages |-> page, hasMore |-> hasMore,
        nextCursor |-> IF hasMore /\ page # <<>> THEN page[1] ELSE 0]

\* GET /conversations/:id/messages by userId, without a cursor
PageFirst(conv, userId, limit) ==
    /\ pager = NoPager
    /\ IF ~isParticipant(conv, userId)
       THEN pager' = [NoPager EXCEPT !.query = "getMessages", !.conv = conv,
                                     !.userId = userId, !.limit = limit, !.code = "FORBIDDEN"]
       ELSE \E ordered \in descOrders(msgStore, visibleMessages(msgStore, conv)) :
                LET r == getMessages(msgStore, ordered, 0, limit) IN
                pager' = [query |-> "getMessages", conv |-> conv, userId |-> userId,
                          limit |-> limit,
                          cursor |-> r.nextCursor, pages |-> <<r.messages>>,
                          hasMore |-> r.hasMore, code |-> "OK"]
    /\ UNCHANGED <<msgStore, blocks, directVars, groupStore, restClock, restCalls, lastCall,
                   authVars, chatVars>>

\* the same client asks for the next page with the nextCursor it got
PageNext ==
    /\ pager.hasMore
    /\ Len(pager.pages) < MaxPages
    /\ \E ordered \in descOrders(msgStore, visibleMessages(msgStore, pager.conv)) :
           LET r == getMessages(msgStore, ordered, pager.cursor, pager.limit) IN
           pager' = [pager EXCEPT !.cursor = r.nextCursor, !.hasMore = r.hasMore,
                                  !.pages = Append(@, r.messages)]
    /\ UNCHANGED <<msgStore, blocks, directVars, groupStore, restClock, restCalls, lastCall,
                   authVars, chatVars>>

\* ------------------------------------------------ edit, delete, forward
\* Date.now() of a REST message route, in minutes: later than the createdAt of
\* the rows the store starts with
now == MaxStamp + restClock

\* the words of a message content, for `contains`
Words(content) ==
    CASE content = DELETED_PLACEHOLDER -> {"this", "message", "was", "deleted"}
      [] content = "hello" -> {"hello"}
      [] content = "edited" -> {"edited"}
      [] OTHER -> {}

\* the frame of a REST notification
NotifyFrame(type, m, sender) == [NoFrame EXCEPT !.type = type, !.messageId = m, !.userId = sender]

\* what a REST message route leaves alone besides the store and the sockets
msgOthers == <<pager, blocks, directVars, groupStore, restClock, authVars, hubVars,
               readyState, authTimeout, aliveVars, closeCalls, ghostVars, lastFrame,
               typingVars, users, participants, lastReadAt, messages, receipts,
               updatedAt, clock, taskVars>>

\* the response of a REST message route
msgCall(op, actor, id, code, message) ==
    /\ restCalls' = restCalls + 1
    /\ lastCall' = [op |-> op, actor |-> actor, group |-> 0, target |-> NoUser,
                    code |-> code, message |-> message, id |-> id]

\* editMessage: the contentType test
editable(row) == row.contentType = "TEXT"

\* PUT /messages/:id
editMessage(userId, id, content) ==
    IF id \notin DOMAIN msgStore
    THEN msgCall("editMessage", userId, id, "NOT_FOUND", "Message not found")
         /\ UNCHANGED <<msgStore, outbox>>
    ELSE IF msgStore[id].senderId # userId
    THEN msgCall("editMessage", userId, id, "FORBIDDEN", "Can only edit your own messages")
         /\ UNCHANGED <<msgStore, outbox>>
    ELSE IF ~editable(msgStore[id])
    THEN msgCall("editMessage", userId, id, "VALIDATION_ERROR", "Can only edit text messages")
         /\ UNCHANGED <<msgStore, outbox>>
    ELSE IF msgStore[id].createdAt < now - EDIT_WINDOW
    THEN msgCall("editMessage", userId, id, "VALIDATION_ERROR",
                 "Can only edit messages within 15 minutes")
         /\ UNCHANGED <<msgStore, outbox>>
    ELSE /\ msgStore' = [msgStore EXCEPT ![id].content = content, ![id].editedAt = now]
         /\ outbox' = sendToUsers(outbox, connections, userConnections, readyState,
                                  getParticipantUserIds(msgStore[id].conversationId) \ {userId},
                                  NotifyFrame("chat:edited", id, userId))
         /\ msgCall("editMessage", userId, id, "OK", "")

\* DELETE /messages/:id
deleteMessage(userId, id, forEveryone) ==
    IF id \notin DOMAIN msgStore
    THEN msgCall("deleteMessage", userId, id, "NOT_FOUND", "Message not found")
         /\ UNCHANGED <<msgStore, outbox>>
    ELSE IF ~forEveryone
    THEN msgCall("deleteMessage", userId, id, "OK", "") /\ UNCHANGED <<msgStore, outbox>>
    ELSE IF msgStore[id].senderId # userId
    THEN msgCall("deleteMessage", userId, id, "FORBIDDEN",
                 "Can only delete your own messages for everyone")
         /\ UNCHANGED <<msgStore, outbox>>
    ELSE IF msgStore[id].createdAt < now - DELETE_WINDOW
    THEN msgCall("deleteMessage", userId, id, "VALIDATION_ERROR",
                 "Can only delete for everyone within 1 hour")
         /\ UNCHANGED <<msgStore, outbox>>
    ELSE /\ msgStore' = [msgStore EXCEPT ![id].deletedAt = now,
                                         ![id].content = DELETED_PLACEHOLDER]
         /\ outbox' = sendToUsers(outbox, connections, userConnections, readyState,
                                  getParticipantUserIds(msgStore[id].conversationId),
                                  NotifyFrame("chat:deleted", id, userId))
         /\ msgCall("deleteMessage", userId, id, "OK", "")

\* forwardMessage, the loop over targetConversationIds from position k: the
\* store and the sockets after it
RECURSIVE forwardTo(_, _, _, _, _, _, _)
forwardTo(store, ob, results, userId, original, targets, k) ==
    IF k > Len(targets) THEN [store |-> store, outbox |-> ob, forwarded |-> results]
    ELSE IF ~isParticipant(targets[k], userId)
    THEN forwardTo(store, ob, results, userId, original, targets, k + 1)
    ELSE forwardTo(Append(store, MessageRow(targets[k], userId, original.content,
                                            original.contentType, now, 0)),
                   sendToUsers(ob, connections, userConnections, readyState,
                               getParticipantUserIds(targets[k]) \ {userId},
                               NotifyFrame("chat:receive", Len(store) + 1, userId)),
                   results + 1, userId, original, targets, k + 1)

\* POST /messages/forward
forwardMessage(userId, id, targets) ==
    IF id \notin DOMAIN msgStore
    THEN msgCall("forwardMessage", userId, id, "NOT_FOUND", "Message not found")
         /\ UNCHANGED <<msgStore, outbox>>
    ELSE IF ~isParticipant(msgStore[id].conversationId, userId)
    THEN msgCall("forwardMessage", userId, id, "FORBIDDEN",
                 "Not a participant of the original conversation")
         /\ UNCHANGED <<msgStore, outbox>>
    ELSE LET r == forwardTo(msgStore, outbox, 0, userId, msgStore[id], targets, 1) IN
         /\ msgStore' = r.store
         /\ outbox' = r.outbox
         /\ restCalls' = restCalls + 1
         /\ lastCall' = [op |-> "forwardMessage", actor |-> userId, group |-> 0,
                         target |-> NoUser, code |-> "OK", message |-> "", id |-> id,
                         forwarded |-> r.forwarded]

\* searchMessages: the rows matching q (and conversationId unless it is
\* NoConv) that are not tombstoned, in conversations of userId
searchMatches(store, userId, q, conv) ==
    {m \in DOMAIN store : /\ q \in Words(store[m].content)
                          /\ store[m].deletedAt = 0
                          /\ isParticipant(store[m].conversationId, userId)
                          /\ conv # NoConv => store[m].conversationId = conv}

\* GET /messages/search: the first SEARCH_TAKE matches by createdAt desc
searchMessages(userId, q, conv) ==
    /\ \E ordered \in descOrders(msgStore, searchMatches(msgStore, userId, q, conv)) :
           pager' = [NoPager EXCEPT !.query = "search", !.conv = conv, !.userId = userId,
                                    !.limit = SEARCH_TAKE, !.code = "OK",
                                    !.pages = <<SubSeq(ordered, 1,
                                                       IF Len(ordered) < SEARCH_TAKE
                                                       THEN Len(ordered) ELSE SEARCH_TAKE)>>]
    /\ UNCHANGED <<msgStore, blocks, directVars, groupStore, restClock, restCalls, lastCall,
                   authVars, chatVars>>

\* ---------------------------------------------------------- initial states
\* the store with the Message rows `history` for the REST message routes
InitStoreWith(history) ==
    /\ users = [u \in Users |-> [isOnline |-> FALSE]]
    /\ participants = [cv \in Convs |-> IF cv = "c1" THEN {"alice", "bob"} ELSE {"bob", "carol"}]
    /\ InitRestWith(history)
    /\ lastReadAt = [cv \in Convs |-> [u \in Users |-> 0]]
    /\ messages = <<>>
    /\ receipts = {}
    /\ updatedAt = [cv \in Convs |-> 0]
    /\ clock = 0

InitStore == InitStoreWith(<<>>)

InitTasks ==
    /\ sendH = <<>>
    /\ delivT = {}
    /\ readH = <<>>
    /\ presenceT = <<>>
    /\ typingT = <<>>
    /\ typingTimeouts = <<>>
    /\ typingTimers = {}

\* the server after start-up: no connection yet
InitWith(history) ==
    /\ connections = <<>>
    /\ userConnections = <<>>
    /\ detached = [c \in ConnIds |-> NoUser]
    /\ readyState = [c \in ConnIds |-> "NONE"]
    /\ authTimeout = [c \in ConnIds |-> "none"]
    /\ isAlive = [c \in ConnIds |-> FALSE]
    /\ heartbeat = NoHeartbeat
    /\ outbox = [c \in ConnIds |-> <<>>]
    /\ closeCalls = [c \in ConnIds |-> <<>>]
    /\ nextConn = 0
    /\ nextFrame = 0
    /\ lastFrame = NoFrameYet
    /\ everAuth = [c \in ConnIds |-> NoUser]
    /\ closes = 0
    /\ InitStoreWith(history)
    /\ InitTasks

Init == InitWith(<<>>)

\* --------------------------------------------- the hub and the handshake
HubTokens == {"alice", "bob", InvalidToken}
PresenceTokens == {"alice", "bob"}
NoPayload == [token |-> InvalidToken, conversationId |-> NoConv, messageId |-> 0,
              replyToMessageId |-> 0, isTyping |-> FALSE]

\* a frame that does not parse or lacks the envelope
ClientMalformed ==
    \E c \in ConnIds :
        /\ nextFrame < MaxFrames
        /\ dispatch(c, FALSE, "", FALSE, NoPayload)

\* an 'auth' frame: payload without a token, or a token (valid for a user, or invalid)
ClientAuth ==
    \E c \in ConnIds, pok \in BOOLEAN, token \in HubTokens :
        /\ nextFrame < MaxFrames
        /\ pok \/ token = InvalidToken
        /\ dispatch(c, TRUE, "auth", pok, [NoPayload EXCEPT !.token = token])

\* a well-formed frame of another type that dispatch answers itself: on a
\* connection without userId, of unknown type, or with an invalid payload
ClientOther ==
    \E c \in ConnIds, type \in FrameTypes \ {"auth"}, pok \in BOOLEAN :
        /\ nextFrame < MaxFrames
        /\ getUserId(connections, c) = NoUser \/ type = "other" \/ ~pok
        /\ dispatch(c, TRUE, type, pok, [NoPayload EXCEPT !.conversationId = "c1"])

HubClose == \E c \in ConnIds : SocketClose(c)

\* a connection of the hub specification
HubConnect ==
    /\ nextConn < MaxHubConns
    /\ Connect

Next ==
    \/ HubConnect
    \/ ClientMalformed
    \/ ClientAuth
    \/ ClientOther
    \/ AuthTimeout
    \/ HubClose

\* The hub, the handshake and the dispatcher's own replies.  The presence
\* chains started by auth and close stay pending here (the store has not
\* answered yet); they write User.isOnline and presence:update frames only.
Spec == Init /\ [][Next]_vars

\* ------------------------------------------------------------ the chat path
\* The hub after alice (connection 1) and then bob (connection 2) have
\* connected and authenticated and both presence chains have completed:
\* alice was told that bob came online; carol is offline.
InitChatWith(history) ==
    /\ connections = (1 :> [userId |-> "alice"]) @@ (2 :> [userId |-> "bob"])
    /\ userConnections = ("alice" :> {1}) @@ ("bob" :> {2})
    /\ detached = [c \in ConnIds |-> NoUser]
    /\ readyState = [c \in ConnIds |-> IF c \in {1, 2} THEN "OPEN" ELSE "NONE"]
    /\ authTimeout = [c \in ConnIds |-> IF c \in {1, 2} THEN "cleared" ELSE "none"]
    /\ isAlive = [c \in ConnIds |-> c \in {1, 2}]
    /\ heartbeat = NoHeartbeat
    /\ outbox = [c \in ConnIds |->
                    IF c = 1 THEN <<AuthSuccessFrame("alice"), PresenceFrame("bob", "online")>>
                    ELSE IF c = 2 THEN <<AuthSuccessFrame("bob")>> ELSE <<>>]
    /\ closeCalls = [c \in ConnIds |-> <<>>]
    /\ nextConn = 2
    /\ nextFrame = 2
    /\ lastFrame = NoFrameYet
    /\ everAuth = [c \in ConnIds |-> IF c = 1 THEN "alice" ELSE IF c = 2 THEN "bob" ELSE NoUser]
    /\ closes = 0
    /\ users = [u \in Users |-> [isOnline |-> u \in {"alice", "bob"}]]
    /\ participants = [cv \in Convs |-> IF cv = "c1" THEN {"alice", "bob"} ELSE {"bob", "carol"}]
    /\ InitRestWith(history)
    /\ lastReadAt = [cv \in Convs |-> [u \in Users |-> 0]]
    /\ messages = <<>>
    /\ receipts = {}
    /\ updatedAt = [cv \in Convs |-> 0]
    /\ clock = 0
    /\ InitTasks

InitChat == InitChatWith(<<>>)

\* a valid chat:send frame on an authenticated connection
ClientChatSend(senders, convs, replies) ==
    \E c \in DOMAIN connections \cap senders, cv \in convs, r \in replies :
        /\ getUserId(connections, c) # NoUser
        /\ dispatch(c, TRUE, "chat:send", TRUE,
                    [NoPayload EXCEPT !.conversationId = cv, !.replyToMessageId = r])

\* a valid chat:read frame on an authenticated connection, naming a stored
\* message or an id (0) that no message has
ClientChatRead(readers, convs) ==
    \E c \in DOMAIN connections \cap readers, cv \in convs, m \in 0..Len(messages) :
        /\ getUserId(connections, c) # NoUser
        /\ dispatch(c, TRUE, "chat:read", TRUE,
                    [NoPayload EXCEPT !.conversationId = cv, !.messageId = m])

\* alice (connection 1) sends into c1, where bob is online, or into c2, of
\* which she is no participant; bob (connection 2) sends into c2, whose other
\* participant carol is offline
ChatSend ==
    /\ Len(sendH) < MaxSends
    /\ \/ ClientChatSend({1}, Convs, {0})
       \/ ClientChatSend({2}, {"c2"}, {0})

ChatClose ==
    \E c \in ConnIds :
        /\ closes < MaxCloses
        /\ SocketClose(c)

ChatNext ==
    \/ ChatSend
    \/ SendIsParticipant
    \/ SendCreate
    \/ SendUpdate
    \/ SendFanout
    \/ DeliverUpsert
    \/ ChatClose

\* Authenticated clients sending chat:send (without replyToMessageId) while
\* sockets close.
ChatSpec == InitChat /\ [][ChatNext]_vars

ReceiptSend ==
    /\ Len(sendH) + Len(readH) < MaxReceiptFrames
    /\ ClientChatSend({1}, {"c1"}, {0})

ReceiptRead ==
    /\ Len(sendH) + Len(readH) < MaxReceiptFrames
    /\ ClientChatRead({2}, {"c1"})

ReceiptNext ==
    \/ ReceiptSend
    \/ SendIsParticipant
    \/ SendCreate
    \/ SendUpdate
    \/ SendFanout
    \/ DeliverUpsert
    \/ ReceiptRead
    \/ ReadUpdateMany
    \/ ReadFindTarget
    \/ ReadFindUnread
    \/ ReadUpsert

\* alice (connection 1) sends chat:send into c1, bob (connection 2) sends
\* chat:read for c1.
ReceiptSpec == InitChat /\ [][ReceiptNext]_vars

\* -------------------------------------------------------------------- typing
\* a valid chat:typing frame for c1 on an authenticated connection
ClientTyping ==
    \E c \in {1, 2}, isTyping \in BOOLEAN :
        /\ nextFrame < 2 + MaxTypingFrames
        /\ dispatch(c, TRUE, "chat:typing", TRUE,
                    [NoPayload EXCEPT !.conversationId = "c1", !.isTyping = isTyping])

\* an 'auth' frame with a valid token on a connection that has a user already
TypingReauth ==
    \E c \in {1, 2}, token \in PresenceTokens :
        /\ nextFrame < 2 + MaxTypingFrames
        /\ dispatch(c, TRUE, "auth", TRUE, [NoPayload EXCEPT !.token = token])

TypingNext ==
    \/ ClientTyping
    \/ TypingReauth
    \/ TypingTimerFire
    \/ TypingBroadcast
    \/ PresenceUpdate
    \/ PresenceBroadcast

\* alice (connection 1) and bob (connection 2) send chat:typing for c1 and
\* 'auth' frames while the typing timers run.
TypingSpec == InitChat /\ [][TypingNext]_vars

\* the timers fire when due and every started lookup is answered
TypingLiveSpec ==
    /\ InitChat
    /\ [][TypingNext]_vars
    /\ WF_vars(TypingTimerFire)
    /\ WF_vars(TypingBroadcast)

\* ------------------------------------------------------------------ presence
\* an 'auth' frame with a valid token
PresenceAuth ==
    \E c \in ConnIds, token \in PresenceTokens :
        /\ nextFrame < MaxAuths
        /\ dispatch(c, TRUE, "auth", TRUE, [NoPayload EXCEPT !.token = token])

PresenceClose ==
    \E c \in ConnIds :
        /\ closes < MaxPresenceCloses
        /\ SocketClose(c)

PresenceNext ==
    \/ Connect
    \/ PresenceAuth
    \/ PresenceClose
    \/ PresenceUpdate
    \/ PresenceBroadcast

\* Clients connect, authenticate and disconnect while the presence chains
\* started by auth and close run.
PresenceSpec == Init /\ [][PresenceNext]_vars

\* whether no handleChatSend and no createDeliveryReceipt is running
sendsSettled ==
    /\ \A i \in DOMAIN sendH : sendH[i].pc \in {"done", "failed"}
    /\ \A t \in delivT : t.pc \in {"done", "failed"}

BulkSend ==
    /\ Len(sendH) + Len(readH) < MaxBulkFrames
    /\ sendsSettled
    /\ ClientChatSend({1, 2}, {"c1"}, {0})

BulkRead ==
    /\ Len(sendH) + Len(readH) < MaxBulkFrames
    /\ \A i \in DOMAIN readH : readH[i].pc \in {"done", "failed"}
    /\ ClientChatRead({2}, {"c1"})

BulkNext ==
    \/ BulkSend
    \/ SendIsParticipant
    \/ SendCreate
    \/ SendUpdate
    \/ SendFanout
    \/ DeliverUpsert
    \/ BulkRead
    \/ ReadUpdateMany
    \/ ReadFindTarget
    \/ ReadFindUnread
    \/ ReadUpsert

\* alice and bob send chat:send into c1 one after the other (the next one
\* when the previous one has been processed); bob sends chat:read for c1 at
\* any moment, one after the other.
BulkSpec == InitChat /\ [][BulkNext]_vars

\* --------------------------------------------------- direct conversations
DirectCall ==
    \E a \in Users, b \in Users \cup {UnknownUser} :
        /\ restCalls < MaxDirectCalls
        /\ restCalls' = restCalls + 1
        /\ getOrCreateDirectConversation(a, b)
        /\ UNCHANGED <<directCalls, groupStore, restClock, authVars, sideVars, chatVars>>

DirectNext == DirectCall

\* Authenticated users call getOrCreateDirectConversation one after the other.
DirectSpec == Init /\ [][DirectNext]_vars

\* ------------------------------------------------------------------- groups
GroupIds == 1..MaxGroups
GroupMemberIds == {{}, {"bob"}, {"carol"}, {"bob", "carol"}, {UnknownUser}}

GroupCreate ==
    \E creator \in Users, memberIds \in GroupMemberIds :
        /\ restCalls < MaxGroupCalls
        /\ Len(groupStore) < MaxGroups
        /\ groupCall("createGroup", creator, 0, NoUser,
                     createGroup(groupStore, creator, memberIds, restClock + 1))

GroupUpdateInfo ==
    \E u \in Users, g \in GroupIds, hasName \in BOOLEAN :
        /\ restCalls < MaxGroupCalls
        /\ groupCall("updateGroupInfo", u, g, NoUser,
                     updateGroupInfo(groupStore, u, g,
                                     [hasName |-> hasName,
                                      value |-> IF hasName THEN "n2" ELSE "d2"]))

GroupAddMembers ==
    \E u \in Users, g \in GroupIds, memberIds \in GroupMemberIds \ {{UnknownUser}} :
        /\ restCalls < MaxGroupCalls
        /\ groupCall("addMembers", u, g, NoUser,
                     addMembers(groupStore, u, g, memberIds, restClock + 1))

GroupRemoveMember ==
    \E actor \in Users, g \in GroupIds, target \in Users :
        /\ restCalls < MaxGroupCalls
        /\ IF g \in DOMAIN groupStore
              /\ {m \in groupStore[g].members : m.userId # target} # {}
           THEN \E nextAdmin \in oldestMembers({m \in groupStore[g].members :
                                                   m.userId # target}) :
                    groupCall("removeMember", actor, g, target,
                              removeMember(groupStore, actor, g, target, nextAdmin))
           ELSE groupCall("removeMember", actor, g, target,
                          removeMember(groupStore, actor, g, target, NoCall))

GroupUpdateMemberRole ==
    \E u \in Users, g \in GroupIds, target \in Users, role \in Roles :
        /\ restCalls < MaxGroupCalls
        /\ groupCall("updateMemberRole", u, g, target,
                     updateMemberRole(groupStore, u, g, target, role))

GroupNext ==
    \/ GroupCreate
    \/ GroupUpdateInfo
    \/ GroupAddMembers
    \/ GroupRemoveMember
    \/ GroupUpdateMemberRole

\* Authenticated users call the group services one after the other.
GroupSpec == Init /\ [][GroupNext]_vars

\* --------------------------------------------------------------------- auth
\* the refresh token strings a client can present: 0 is one never issued
Tokens == 0..MaxTokens

ClientLogin ==
    \E u \in {"alice", "bob"}, valid \in BOOLEAN :
        Len(authLog) < MaxAuthCalls /\ AuthLogin(u, valid)

ClientRefresh ==
    \E token \in Tokens :
        Len(authLog) < MaxAuthCalls /\ token <= tokenSeq /\ AuthRefreshFind(token)

ClientLogout ==
    \E token \in Tokens :
        Len(authLog) < MaxAuthCalls /\ token <= tokenSeq /\ AuthLogout(token)

AuthNext ==
    \/ ClientLogin
    \/ ClientRefresh
    \/ AuthRefreshDelete
    \/ AuthRefreshCreate
    \/ ClientLogout
    \/ AuthExpire

\* Clients log in, refresh and log out at any moment, concurrently; stored
\* tokens expire at any moment.
AuthSpec == Init /\ [][AuthNext]_vars

\* ---------------------------------------------------------------- history
\* the stores a client pages through: up to MaxHistory messages of c1, in
\* insertion order, some of equal createdAt, some tombstoned
Histories ==
    UNION {{h \in [1..n -> {MessageRow("c1", "alice", IF d = 0 THEN "hello" ELSE DELETED_PLACEHOLDER,
                                        "TEXT", t, d)
                               : t \in 1..MaxStamp, d \in {0, MaxStamp}}] :
               \A i, j \in 1..n : i < j => h[i].createdAt <= h[j].createdAt}
           : n \in 0..MaxHistory}

InitPage == \E history \in Histories : InitWith(history)

ClientPageFirst ==
    \E userId \in {"alice", "carol"}, limit \in 1..MaxLimit : PageFirst("c1", userId, limit)

PagingNext ==
    \/ ClientPageFirst
    \/ PageNext

PageSpec == InitPage /\ [][PagingNext]_vars

\* ------------------------------------------------ edit, delete, forward
\* the stores the message routes start with: one or two messages of c1, TEXT
\* or IMAGE, by alice or bob, none tombstoned
MsgHistories ==
    UNION {{h \in [1..n -> {MessageRow("c1", u, "hello", ct, t, 0)
                               : u \in {"alice", "bob"}, ct \in {"TEXT", "IMAGE"},
                                 t \in {1, MaxStamp}}] :
               \A i, j \in 1..n : i < j => h[i].createdAt <= h[j].createdAt}
           : n \in 1..2}

InitMsg == \E history \in MsgHistories : InitWith(history)

MsgUsers == {"alice", "bob"}

MsgEdit ==
    \E userId \in MsgUsers, id \in 1..MaxMsgRows :
        /\ restCalls < MaxMsgCalls
        /\ editMessage(userId, id, "edited")
        /\ UNCHANGED msgOthers

MsgDelete ==
    \E userId \in MsgUsers, id \in 1..MaxMsgRows, forEveryone \in BOOLEAN :
        /\ restCalls < MaxMsgCalls
        /\ deleteMessage(userId, id, forEveryone)
        /\ UNCHANGED msgOthers

MsgForward ==
    \E userId \in MsgUsers, id \in 1..MaxMsgRows, targets \in {<<"c2">>, <<"c1", "c2">>} :
        /\ restCalls < MaxMsgCalls
        /\ Len(msgStore) + Len(targets) <= MaxMsgRows
        /\ forwardMessage(userId, id, targets)
        /\ UNCHANGED msgOthers

\* the queries are made when the writes are over
MsgSearch ==
    \E userId \in MsgUsers, q \in {"hello", "deleted"}, conv \in {NoConv, "c1"} :
        /\ restCalls = MaxMsgCalls
        /\ pager = NoPager
        /\ searchMessages(userId, q, conv)

MsgPage ==
    \E userId \in MsgUsers :
        /\ restCalls = MaxMsgCalls
        /\ PageFirst("c1", userId, 1)

\* fifteen minutes or an hour pass
MsgTick ==
    /\ restClock < MaxTicks * EDIT_WINDOW
    /\ \E d \in {EDIT_WINDOW, DELETE_WINDOW} : restClock' = restClock + d
    /\ UNCHANGED <<directVars, groupStore, restCalls, lastCall, authVars, sideVars, chatVars>>

MsgNext ==
    \/ MsgEdit
    \/ MsgDelete
    \/ MsgForward
    \/ MsgSearch
    \/ MsgPage
    \/ PageNext
    \/ MsgTick

MsgSpec == InitMsg /\ [][MsgNext]_vars

\* ------------------------------------------------------------------ claims
\* C1: after any sequence of add, authenticate and remove (authenticate
\* possibly repeated on one connection id, with the same or another user id)
\* the user index is exactly the derived view of the connection index: c is
\* in the set of u iff c is in the connection index with userId = u, and
\* isUserOnline(u) iff such a connection exists.
C1_UserIndexIsDerivedView ==
    \A u \in Users :
        /\ \A c \in ConnIds :
               (u \in DOMAIN userConnections /\ c \in userConnections[u])
                   <=> (c \in DOMAIN connections /\ connections[c].userId = u)
        /\ isUserOnline(userConnections, u)
               <=> \E c \in DOMAIN connections : connections[c].userId = u

\* C2: a connection moves only forward through OPEN_UNAUTH -> OPEN_AUTH ->
\* CLOSED: once authenticated as u no later frame changes its userId, and a
\* removed connection id is never present in the hub again.
C2_ConnectionMovesForward ==
    [][\A c \in ConnIds :
          /\ (getUserId(connections, c) # NoUser /\ c \in DOMAIN connections')
                 => getUserId(connections', c) = getUserId(connections, c)
          /\ readyState[c] = "CLOSED" => c \notin DOMAIN connections']_vars

\* C3: a well-formed frame whose type is not 'auth', on a connection that is
\* not authenticated, produces exactly one error frame NOT_AUTHENTICATED with
\* replyTo = the frame id on that socket, invokes no handler, and leaves the
\* hub indices, the store and the typing-timer map unchanged.
C3_UnauthFrameRejected ==
    [][(lastFrame'.id # 0 /\ lastFrame'.wf /\ lastFrame'.type # "auth" /\ ~lastFrame'.authed)
          => /\ outbox' = [outbox EXCEPT ![lastFrame'.conn] =
                               Append(@, ErrorFrame("NOT_AUTHENTICATED", lastFrame'.id))]
             /\ lastFrame'.invoked = "none"
             /\ UNCHANGED <<hubVars, storeVars, typingVars, taskVars>>]_vars

C3_Witness ==
    /\ lastFrame.id # 0 /\ lastFrame.wf /\ ~lastFrame.authed
    /\ lastFrame.type = "chat:send"
    /\ outbox[lastFrame.conn] # <<>>
    /\ outbox[lastFrame.conn][Len(outbox[lastFrame.conn])].code = "NOT_AUTHENTICATED"

\* whether one of the close calls cs was made by the auth timer
TimerClosed(cs) == \E i \in DOMAIN cs : cs[i][2] = "timer"

\* C4: when the auth timer of a connection expires and the connection is
\* still unauthenticated, the server sends auth:error and closes with 4001;
\* a successful authentication before expiry cancels the timer, and such a
\* connection is never closed by the auth timer.
C4_AuthTimerContract ==
    [][\A c \in ConnIds :
          /\ (authTimeout[c] = "pending" /\ authTimeout'[c] = "fired"
                  /\ getUserId(connections, c) = NoUser)
                 => /\ outbox'[c] = Append(outbox[c], AuthErrorFrame("Authentication timeout"))
                    /\ closeCalls'[c] = Append(closeCalls[c], <<AUTH_CLOSE_CODE, "timer">>)
                    /\ readyState'[c] # "OPEN"
          /\ (authTimeout[c] = "pending" /\ getUserId(connections', c) # NoUser)
                 => authTimeout'[c] = "cleared"
          /\ authTimeout[c] = "cleared"
                 => (authTimeout'[c] = "cleared" /\ ~TimerClosed(closeCalls'[c]))
      ]_vars

C4_Witness ==
    \E c, d \in ConnIds :
        /\ closeCalls[c] = <<(<<AUTH_CLOSE_CODE, "timer">>)>>
        /\ outbox[c] = <<AuthErrorFrame("Authentication timeout")>>
        /\ authTimeout[d] = "cleared" /\ getUserId(connections, d) # NoUser

\* the positions of the frames written to socket c in reply to frame cmid
RepliesTo(c, cmid) == {k \in DOMAIN outbox[c] : outbox[c][k].replyTo = cmid}

\* C5: a chat:send of an authenticated user who is no participant of the
\* conversation persists no message, leaves the conversation's updatedAt
\* alone, sends no chat:receive or chat:delivered to anyone, and yields
\* exactly one error frame SEND_FAILED with replyTo = clientMessageId on the
\* sending connection.
C5_NonParticipantSendRejected ==
    /\ \A i \in DOMAIN sendH :
          sendH[i].senderId \notin participants[sendH[i].conv] =>
              /\ sendH[i].pc \in {"isParticipant", "failed"}
              /\ sendH[i].msg = 0
              /\ \A k \in RepliesTo(sendH[i].conn, sendH[i].cmid) :
                     outbox[sendH[i].conn][k] = ErrorFrame("SEND_FAILED", sendH[i].cmid)
              /\ Cardinality(RepliesTo(sendH[i].conn, sendH[i].cmid))
                     = IF sendH[i].pc = "failed" THEN 1 ELSE 0
              /\ \A c \in ConnIds \ {sendH[i].conn} : RepliesTo(c, sendH[i].cmid) = {}
    /\ \A m \in MsgIds :
          \E j \in DOMAIN sendH :
              /\ sendH[j].msg = m
              /\ sendH[j].conv = messages[m].conversationId
              /\ sendH[j].senderId \in participants[sendH[j].conv]
    /\ \A cv \in Convs :
          updatedAt[cv] # 0 =>
              \E j \in DOMAIN sendH :
                  /\ sendH[j].conv = cv /\ sendH[j].msg # 0 /\ sendH[j].now = updatedAt[cv]
                  /\ sendH[j].senderId \in participants[cv]
    /\ \A c \in ConnIds : \A k \in DOMAIN outbox[c] :
          outbox[c][k].type \in {"chat:receive", "chat:delivered"}
              => outbox[c][k].messageId \in MsgIds

C5_Witness ==
    \E i \in DOMAIN sendH :
        /\ sendH[i].senderId \notin participants[sendH[i].conv]
        /\ sendH[i].pc = "failed"
        /\ outbox[sendH[i].conn][Len(outbox[sendH[i].conn])]
               = ErrorFrame("SEND_FAILED", sendH[i].cmid)
        /\ messages = <<>>

\* C6: every chat:send routed to the chat handler gets exactly one frame with
\* replyTo = clientMessageId on the sending connection: chat:sent if the
\* message was persisted, an error frame otherwise; a failure after the
\* message was persisted and ACKed never produces an error frame for that
\* clientMessageId.
C6_ExactlyOneReply ==
    \A i \in DOMAIN sendH :
        LET rs == RepliesTo(sendH[i].conn, sendH[i].cmid) IN
        /\ Cardinality(rs) <= 1
        /\ sendH[i].pc \in {"done", "failed"} => Cardinality(rs) = 1
        /\ \A k \in rs :
               outbox[sendH[i].conn][k].type
                   = IF sendH[i].msg # 0 THEN "chat:sent" ELSE "error"
        /\ sendH[i].msg # 0 => sendH[i].msg \in MsgIds

\* whether the frames of the given type on socket c that name messages of one
\* conversation appear in ascending createdAt
InPersistOrder(c, type) ==
    \A k1, k2 \in DOMAIN outbox[c] :
        (/\ k1 < k2
         /\ outbox[c][k1].type = type /\ outbox[c][k2].type = type
         /\ messages[outbox[c][k1].messageId].conversationId
                = messages[outbox[c][k2].messageId].conversationId)
            => messages[outbox[c][k1].messageId].createdAt
                   < messages[outbox[c][k2].messageId].createdAt

\* C7: for two chat:send frames of one connection into one conversation that
\* are both persisted, the chat:sent ACKs are written to that connection in
\* the order in which the messages were persisted (ascending createdAt).
C7_AcksInPersistOrder == \A c \in ConnIds : InPersistOrder(c, "chat:sent")

\* C8: for two messages persisted in one conversation, every recipient that
\* is sent chat:receive for both is sent them in persistence order
\* (ascending createdAt).
C8_FanoutInPersistOrder == \A c \in ConnIds : InPersistOrder(c, "chat:receive")

\* the positions of chat:delivered{m} on socket c
DeliveredOn(c, m) == {k \in DOMAIN outbox[c] : outbox[c][k] = ChatDeliveredFrame(m)}

\* the createDeliveryReceipt invocations for m whose upsert took effect
DoneTasks(m) == {t \in delivT : t.messageId = m /\ t.pc = "done"}

\* createDeliveryReceipt is invoked only for a participant other than the
\* sender who was sent chat:receive{M}; receipts and chat:delivered frames
\* come from such invocations only, and chat:delivered{M} never precedes
\* chat:sent for M
FanoutSound ==
    /\ \A t \in delivT :
          /\ t.messageId \in MsgIds
          /\ t.recipientId # t.senderId
          /\ t.recipientId \in participants[messages[t.messageId].conversationId]
          /\ \E c \in ConnIds :
                 /\ ConnUserId(c) = t.recipientId
                 /\ \E k \in DOMAIN outbox[c] :
                        outbox[c][k] = ChatReceiveFrame(t.messageId, t.senderId)
    /\ \A r \in receipts : \E t \in DoneTasks(r.messageId) : t.recipientId = r.userId
    /\ \A m \in MsgIds, c \in ConnIds :
          /\ Cardinality(DeliveredOn(c, m)) <= Cardinality(DoneTasks(m))
          /\ \A k \in DeliveredOn(c, m) :
                 /\ ConnUserId(c) = messages[m].senderId
                 /\ \E i \in DOMAIN sendH :
                        /\ sendH[i].msg = m
                        /\ \E j \in DOMAIN outbox[sendH[i].conn] :
                               /\ outbox[sendH[i].conn][j] = ChatSentFrame(sendH[i].cmid, m)
                               /\ sendH[i].conn = c => j < k

\* C9 (as stated): for a persisted message M and a participant r other than
\* the sender whose sendToUser returned true, r was sent chat:receive{M}, and
\* once createDeliveryReceipt has run a receipt (M, r) is stored and
\* chat:delivered{M} was sent to the sender; chat:delivered{M} never precedes
\* chat:sent; without a true sendToUser there is no receipt and no
\* chat:delivered.
C9_DeliveredAlways ==
    /\ FanoutSound
    /\ \A t \in delivT :
          t.pc \in {"done", "failed"} =>
              /\ HasReceipt(receipts, t.messageId, t.recipientId)
              /\ \E c \in ConnIds : DeliveredOn(c, t.messageId) # {}

\* C9 (amended): as above, but the receipt (M, r) is stored only if the store
\* accepts the upsert, and chat:delivered{M} is then written to the sockets
\* of the sender that are open at that moment (none, possibly).
C9_DeliveryContract ==
    /\ FanoutSound
    /\ \A t \in delivT :
          t.pc = "done" => HasReceipt(receipts, t.messageId, t.recipientId)
    /\ \A m \in MsgIds, c \in ConnIds :
          (ConnUserId(c) = messages[m].senderId /\ c \in DOMAIN connections
                  /\ readyState[c] = "OPEN")
              => Cardinality(DeliveredOn(c, m)) = Cardinality(DoneTasks(m))

C9_Witness ==
    /\ \E t \in delivT :
          /\ t.pc = "done"
          /\ HasReceipt(receipts, t.messageId, t.recipientId)
          /\ \E c \in ConnIds : DeliveredOn(c, t.messageId) # {}
    /\ \E i \in DOMAIN sendH :
          /\ sendH[i].pc = "done"
          /\ "carol" \in participants[sendH[i].conv]
          /\ ~\E t \in delivT : t.messageId = sendH[i].msg

\* C10: receipt status is monotonic: once the receipt (m, u) has status READ
\* it never has status DELIVERED again, however the un-awaited delivery
\* upsert of a chat:send interleaves with a chat:read of the recipient; and
\* there is at most one receipt row per (messageId, userId).
C10_ReceiptMonotonic ==
    [][/\ \A r \in receipts :
              r.status = "READ" =>
                  ~\E q \in receipts' :
                      q.messageId = r.messageId /\ q.userId = r.userId /\ q.status = "DELIVERED"
       /\ \A q1, q2 \in receipts' :
              (q1.messageId = q2.messageId /\ q1.userId = q2.userId) => q1 = q2
      ]_vars

C10_Witness ==
    \E t \in delivT :
        /\ t.pc = "done"
        /\ [messageId |-> t.messageId, userId |-> t.recipientId, status |-> "READ"] \in receipts
        /\ \E c \in ConnIds : \E k1, k2 \in DOMAIN outbox[c] :
               /\ k1 < k2
               /\ outbox[c][k1] = ChatReadFrame(t.messageId, t.recipientId)
               /\ outbox[c][k2] = ChatDeliveredFrame(t.messageId)


C12_ReadNotificationsInOrder ==
    \A c \in ConnIds :
        /\ InPersistOrder(c, "chat:read")
        /\ \A k1, k2 \in DOMAIN outbox[c] :
               (outbox[c][k1].type = "chat:read" /\ outbox[c][k1] = outbox[c][k2]) => k1 = k2

\* the positions of presence:update{status} about u on socket c
PresenceOn(c, u, status) ==
    {k \in DOMAIN outbox[c] : outbox[c][k] = PresenceFrame(u, status)}

\* C13: presence:update{online} for u is broadcast only on the transition
\* from zero to one authenticated connections of u: authenticating a further
\* connection of u starts no online broadcast, so (as long as no connection
\* has closed) a neighbour's socket holds at most one online frame about u.
C13_OnlineOncePerTransition ==
    [][/\ \A u \in Users :
              (/\ Len(presenceT') = Len(presenceT) + 1
               /\ presenceT'[Len(presenceT')] = [userId |-> u, status |-> "online", pc |-> "update"])
                  => ~\E c \in DOMAIN connections : connections[c].userId = u
       /\ closes' = 0 =>
              \A c \in ConnIds, u \in Users : Cardinality(PresenceOn(c, u, "online")') <= 1
      ]_vars

\* the open sockets whose connection is authenticated as a user sharing a
\* conversation with u
NeighbourSockets(u) ==
    {d \in DOMAIN connections :
        /\ readyState[d] = "OPEN"
        /\ connections[d].userId \in relatedUsers(u, {cv \in Convs : u \in participants[cv]})}

\* C14: closing a connection of u while u has another authenticated
\* connection emits no presence frame and writes no isOnline; closing u's last
\* authenticated connection makes isUserOnline(u) false and starts the
\* offline propagation, whose broadcast sends exactly one
\* presence:update{offline} to each online user sharing a conversation with u.
C14_OfflineOnLastClose ==
    [][/\ \A c \in DOMAIN connections :
              (c \notin DOMAIN connections' /\ connections[c].userId # NoUser) =>
                  LET u == connections[c].userId IN
                  IF \E d \in DOMAIN connections \ {c} : connections[d].userId = u
                  THEN presenceT' = presenceT /\ users' = users /\ outbox' = outbox
                  ELSE /\ ~isUserOnline(userConnections', u)
                       /\ presenceT' = Append(presenceT, [userId |-> u, status |-> "offline",
                                                          pc |-> "update"])
       /\ \A u \in Users :
              (\E d \in ConnIds : Cardinality(PresenceOn(d, u, "offline")')
                                      > Cardinality(PresenceOn(d, u, "offline")))
                  => outbox' = SendTo(outbox, NeighbourSockets(u), PresenceFrame(u, "offline"))
      ]_vars

\* C15: under every interleaving of auth and close events of u, once no
\* presence store update for u is pending the store has isOnline(u) = true
\* only if the hub reports at least one connection for u.
C15_StoreOnlineImpliesHubOnline ==
    \A u \in Users :
        (/\ ~\E i \in DOMAIN presenceT : presenceT[i].userId = u /\ presenceT[i].pc = "update"
         /\ users[u].isOnline)
            => isUserOnline(userConnections, u)

\* C16: a presence:update frame about u is sent only to users who share a
\* conversation with u at broadcast time, never to u itself, and one
\* broadcast sends it at most once per recipient.
C16_PresenceOnlyToNeighbours ==
    [][\A d \in ConnIds, u \in Users, st \in {"online", "offline"} :
          Cardinality(PresenceOn(d, u, st)') > Cardinality(PresenceOn(d, u, st))
              => /\ Cardinality(PresenceOn(d, u, st)') = Cardinality(PresenceOn(d, u, st)) + 1
                 /\ d \in DOMAIN connections
                 /\ connections[d].userId # u
                 /\ connections[d].userId
                        \in relatedUsers(u, {cv \in Convs : u \in participants[cv]})
      ]_vars

\* C17: for distinct existing users A and B and sequential calls,
\* getOrCreateDirectConversation(A,B) and (B,A) return the same conversation
\* id, a repeated call returns that id again, and only the first call changes
\* the store (one DIRECT conversation with the two participant rows); a call
\* with A = B fails with VALIDATION_ERROR, a call with an unknown B and no
\* existing conversation fails with NOT_FOUND, both leaving the store as is.
C17_DirectConversationIdempotent ==
    [][lastCall'.op = "getOrCreateDirectConversation" =>
          LET a == lastCall'.actor
              b == lastCall'.target
              of(ds) == {d \in ds : {d.participants[1], d.participants[2]} = {a, b}}
          IN
          /\ directConvs \subseteq directConvs'
          /\ \A d \in directConvs' : Len(d.participants) = 2
          /\ Cardinality(of(directConvs')) <= 1
          /\ a = b => (lastCall'.code = "VALIDATION_ERROR" /\ directConvs' = directConvs)
          /\ (a # b /\ b \notin Users /\ of(directConvs) = {})
                 => (lastCall'.code = "NOT_FOUND" /\ directConvs' = directConvs)
          /\ (a # b /\ b \in Users)
                 => /\ lastCall'.code = "OK"
                    /\ \E d \in of(directConvs') : d.id = lastCall'.id
                    /\ IF of(directConvs) # {}
                       THEN directConvs' = directConvs
                       ELSE directConvs' = directConvs
                                \cup {[id |-> lastCall'.id, participants |-> <<a, b>>,
                                       roles |-> <<roleDefault, roleDefault>>]}
      ]_vars

\* (bob, alice) returns the conversation that (alice, bob) created
C17_Witness ==
    /\ lastCall.op = "getOrCreateDirectConversation"
    /\ lastCall.actor = "bob" /\ lastCall.target = "alice"
    /\ lastCall.code = "OK" /\ lastCall.id = 1
    /\ directConvs = {[id |-> 1, participants |-> <<"alice", "bob">>,
                      roles |-> <<roleDefault, roleDefault>>]}


\* C18: in every state reachable by createGroup, addMembers, removeMember and
\* updateMemberRole calls, every group conversation that has at least one
\* participant has at least one participant with role ADMIN.
C18_GroupHasAdmin ==
    \A g \in DOMAIN groupStore :
        groupStore[g].members # {} =>
            \E m \in groupStore[g].members : m.role = "ADMIN"

\* the removeMember call of this step deleted the ADMIN row of its target and
\* left other rows
RemovedAdmin ==
    /\ restCalls' = restCalls + 1
    /\ lastCall'.op = "removeMember"
    /\ lastCall'.group \in DOMAIN groupStore
    /\ \E m \in groupStore[lastCall'.group].members :
           m.userId = lastCall'.target /\ m.role = "ADMIN"
    /\ lastCall'.target \notin memberIdsOf(groupStore'[lastCall'.group].members)
    /\ groupStore'[lastCall'.group].members # {}

\* C19: after removeMember removes a participant whose role was ADMIN and a
\* participant remains, a remaining participant of the earliest joinedAt is
\* ADMIN, the removed row is gone, and a SYSTEM message authored by the
\* actor ("left the group" for self-removal, "removed" otherwise) was added.
C19_RemoveAdminPromotesAndAnnounces ==
    [][RemovedAdmin =>
        LET g == lastCall'.group
            before == groupStore[g]
            after == groupStore'[g]
        IN /\ \E m \in oldestMembers(after.members) : m.role = "ADMIN"
           /\ lastCall'.target \notin memberIdsOf(after.members)
           /\ after.messages =
                  Append(before.messages,
                         [senderId |-> lastCall'.actor, contentType |-> "SYSTEM",
                          content |-> IF lastCall'.actor = lastCall'.target
                                      THEN "left the group" ELSE "removed",
                          about |-> lastCall'.target])]_vars

\* the call of this step is one of the guarded operations, on an existing
\* group, by an actor who is not an ADMIN participant of it
GuardedCallByNonAdmin ==
    /\ restCalls' = restCalls + 1
    /\ \/ lastCall'.op \in {"updateGroupInfo", "addMembers", "updateMemberRole"}
       \/ lastCall'.op = "removeMember" /\ lastCall'.actor # lastCall'.target
    /\ lastCall'.group \in DOMAIN groupStore
    /\ ~\E m \in groupStore[lastCall'.group].members :
            m.userId = lastCall'.actor /\ m.role = "ADMIN"

\* C20: updateGroupInfo, addMembers, updateMemberRole and removeMember of
\* another user fail with FORBIDDEN when the actor is not a participant ("Not a
\* member of this group") or is a participant that is not ADMIN ("Admin
\* privileges required"), and leave the group, its participant rows and its
\* messages unchanged.
C20_AdminGuard ==
    [][GuardedCallByNonAdmin =>
        /\ lastCall'.code = "FORBIDDEN"
        /\ lastCall'.message =
               IF lastCall'.actor \in memberIdsOf(groupStore[lastCall'.group].members)
               THEN "Admin privileges required"
               ELSE "Not a member of this group"
        /\ groupStore' = groupStore]_vars

C20_Witness ==
    /\ lastCall.op = "removeMember"
    /\ lastCall.actor = "bob"
    /\ lastCall.target = "alice"
    /\ lastCall.code = "FORBIDDEN"
    /\ lastCall.message = "Admin privileges required"
    /\ lastCall.group \in DOMAIN groupStore
    /\ \E m \in groupStore[lastCall.group].members : m.userId = "bob" /\ m.role = "MEMBER"
    /\ \E m \in groupStore[lastCall.group].members : m.userId = "alice" /\ m.role = "ADMIN"


\* the refresh calls on token r that returned a new pair
Rotations(r) ==
    {i \in DOMAIN authLog : /\ authLog[i].op = "refresh" /\ authLog[i].token = r
                            /\ authLog[i].pc = "done" /\ authLog[i].code = "OK"}

\* token n was presented to refresh or logout by some call so far
Presented(n) == \E i \in DOMAIN authLog : authLog[i].op # "login" /\ authLog[i].token = n

\* C21: once a refresh(r) has returned a new pair (a', r'), every refresh(r)
\* made later fails with AUTHENTICATION_ERROR, issues no token and leaves the
\* stored tokens as they are; r' stays stored until it is presented itself, and
\* a refresh of a stored, unexpired token goes on to rotate it.
C21_ReplayRejected ==
    /\ [][\A r \in 1..MaxTokens :
            (/\ Rotations(r) # {}
             /\ Len(authLog') = Len(authLog) + 1
             /\ authLog'[Len(authLog')].op = "refresh"
             /\ authLog'[Len(authLog')].token = r)
            => /\ authLog'[Len(authLog')].pc = "done"
               /\ authLog'[Len(authLog')].code = "AUTHENTICATION_ERROR"
               /\ authLog'[Len(authLog')].refreshToken = 0
               /\ refreshTokens' = refreshTokens
               /\ tokenSeq' = tokenSeq]_vars
    /\ [](\A i \in DOMAIN authLog :
            (authLog[i].pc = "done" /\ authLog[i].code = "OK" /\ authLog[i].op = "refresh"
             /\ ~Presented(authLog[i].refreshToken))
            => storedToken(refreshTokens, authLog[i].refreshToken) # {})
    /\ [][\A i \in DOMAIN authLog :
            (authLog[i].pc = "create" /\ authLog'[i] # authLog[i])
            => /\ authLog'[i].pc = "done" /\ authLog'[i].code = "OK"
               /\ authLog'[i].refreshToken \notin {x.token : x \in refreshTokens}
               /\ storedToken(refreshTokens', authLog'[i].refreshToken) # {}]_vars

\* login gave token 1, refresh(1) gave 2, the replay refresh(1) failed, and
\* refresh(2) gave 3
C21_Witness ==
    /\ Len(authLog) = 4
    /\ authLog[2] = AuthCall("refresh", 1, "alice", "done", "OK", 2)
    /\ authLog[3] = AuthCall("refresh", 1, NoUser, "done", "AUTHENTICATION_ERROR", 0)
    /\ authLog[4] = AuthCall("refresh", 2, "alice", "done", "OK", 3)


\* the pages got so far, older pages first
Concatenated(pages) ==
    LET RECURSIVE cat(_)
        cat(k) == IF k = 0 THEN <<>> ELSE pages[k] \o cat(k - 1)
    IN cat(Len(pages))

\* C22: for a fixed set of messages (some of equal createdAt, some tombstoned)
\* and a limit >= 1, the pages of getMessages, older pages first, contain no
\* message twice and are in ascending createdAt; once hasMore is false they
\* contain exactly the non-tombstoned messages; nextCursor is the oldest
\* message of the page just returned exactly when hasMore is true.
C22_PagesPartitionHistory ==
    pager.code = "OK" =>
        LET all == Concatenated(pager.pages) IN
        /\ \A i, j \in DOMAIN all : i # j => all[i] # all[j]
        /\ \A i, j \in DOMAIN all : i < j => msgStore[all[i]].createdAt <= msgStore[all[j]].createdAt
        /\ ~pager.hasMore => Range(all) = visibleMessages(msgStore, pager.conv)
        /\ pager.hasMore => pager.cursor = pager.pages[Len(pager.pages)][1]
        /\ ~pager.hasMore => pager.cursor = 0


\* C23: in every reachable state, after any sequence of edit,
\* delete-for-everyone and forward requests, every message with deletedAt set
\* has the placeholder as content, and no such message is in a page of
\* getMessages or in a search result.
C23_TombstoneKeepsPlaceholder ==
    \A m \in DOMAIN msgStore :
        msgStore[m].deletedAt # 0 =>
            /\ msgStore[m].content = DELETED_PLACEHOLDER
            /\ \A k \in DOMAIN pager.pages : m \notin Range(pager.pages[k])


\* the timers handleTyping can arm
TypingTimerIds ==
    {[id |-> f, key |-> <<u, "c1">>, conn |-> c] :
        f \in 3..(2 + MaxTypingFrames), u \in {"alice", "bob"}, c \in {1, 2}}

\* a chat:typing frame for the key of timer t was processed after the one that armed it
TypingSuperseded(t) ==
    \E i \in DOMAIN typingT :
        /\ typingT[i].frame > t.id
        /\ typingT[i].userId = t.key[1] /\ typingT[i].conv = t.key[2]

\* timer t has fired, its broadcast of isTyping:false about the user of its key
\* has run, and the map has no entry for the key
TypingAutoCleared(t) ==
    /\ t \notin typingTimers
    /\ t.key \notin DOMAIN typingTimeouts
    /\ \E i \in DOMAIN typingT :
           /\ typingT[i].timer = t.id /\ typingT[i].pc # "lookup"
           /\ typingT[i].userId = t.key[1] /\ typingT[i].conv = t.key[2]
           /\ ~typingT[i].isTyping

\* C24: after chat:typing{c, isTyping:true} from user u is processed, if no
\* further chat:typing frame for (u, c) is processed, then eventually the
\* timer has fired, isTyping:false about u was broadcast in c, and the timer
\* map has no entry for (u, c).
C24_TypingAutoClears ==
    \A t \in TypingTimerIds :
        [](t \in typingTimers => <>(TypingSuperseded(t) \/ TypingAutoCleared(t)))

\* the last chat:typing frame processed for (u, conv) had isTyping:false
LastTypingFalse(u, conv) ==
    \E i \in DOMAIN typingT :
        /\ typingT[i].frame # 0 /\ typingT[i].userId = u /\ typingT[i].conv = conv
        /\ ~typingT[i].isTyping
        /\ \A j \in DOMAIN typingT :
               (typingT[j].frame # 0 /\ typingT[j].userId = u /\ typingT[j].conv = conv)
               => j <= i

\* C25: at most one auto-clear timer is pending per (userId, conversationId);
\* after a chat:typing{isTyping:false} for (u, c) was processed no timer is
\* pending for (u, c), and no timer callback broadcasts isTyping:false for
\* (u, c) until a later isTyping:true for (u, c) is processed.
C25_OneTimerPerKey ==
    /\ \A t1, t2 \in typingTimers : t1.key = t2.key => t1 = t2
    /\ \A t \in typingTimers : ~LastTypingFalse(t.key[1], t.key[2])
    /\ \A i, j \in DOMAIN typingT :
           (/\ i < j
            /\ typingT[i].frame # 0 /\ ~typingT[i].isTyping
            /\ typingT[j].timer # 0
            /\ typingT[j].userId = typingT[i].userId /\ typingT[j].conv = typingT[i].conv)
           => \E k \in (i + 1)..(j - 1) :
                  /\ typingT[k].frame # 0 /\ typingT[k].isTyping
                  /\ typingT[k].userId = typingT[i].userId /\ typingT[k].conv = typingT[i].conv

\* ------------------------------------------------- direct and group together
ConvNext ==
    \/ DirectCall
    \/ GroupNext

\* Users call getOrCreateDirectConversation and the group service in any order.
ConvSpec == Init /\ [][ConvNext]_vars

\* C26: every DIRECT conversation has exactly two participant rows, of two
\* different users, both with role MEMBER, and no step -- a call of the group
\* service (addMembers, removeMember, updateMemberRole, createGroup,
\* updateGroupInfo) or any other -- changes the participant rows of a DIRECT
\* conversation that exists.
C26_DirectShape ==
    \A d \in directConvs :
        /\ Len(d.participants) = 2
        /\ d.participants[1] # d.participants[2]
        /\ d.roles = <<"MEMBER", "MEMBER">>

C26_DirectImmutable ==
    /\ directConvs \subseteq directConvs'
    /\ \A d \in directConvs' \ directConvs : \A e \in directConvs : e.id # d.id
    /\ lastCall'.op \in {"createGroup", "updateGroupInfo", "addMembers", "removeMember",
                        "updateMemberRole"}
           => directConvs' = directConvs

C26_DirectParticipantsFixed == []C26_DirectShape /\ [][C26_DirectImmutable]_vars

\* a DIRECT conversation exists and a group call that changed the participant
\* rows of a group has just returned
C26_Witness ==
    /\ directConvs # {}
    /\ lastCall.op \in {"addMembers", "removeMember", "updateMemberRole"}
    /\ lastCall.code = "OK"

\* ------------------------------------------- receipts with re-authentication
\* an auth frame on a connection that is already authenticated
ReceiptReauth ==
    \E c \in {1, 2}, token \in PresenceTokens :
        /\ nextFrame < 2 + MaxReceiptFrames + MaxReauths
        /\ dispatch(c, TRUE, "auth", TRUE, [NoPayload EXCEPT !.token = token])

SwitchNext ==
    \/ ReceiptNext
    \/ ReceiptReauth

\* alice sends chat:send into c1 and bob sends chat:read for c1 while either
\* connection may send another auth frame with a valid token.  The presence
\* update that handleWsAuth starts stays pending here.
SwitchSpec == InitChat /\ [][SwitchNext]_vars

\* C27: every MessageReceipt row names an existing message and a user other
\* than the sender of that message; neither createDeliveryReceipt nor the
\* upsert of handleChatRead writes a receipt for the message's own sender.
C27_ReceiptNeverForSender ==
    \A r \in receipts :
        /\ r.messageId \in MsgIds
        /\ r.userId # messages[r.messageId].senderId

\* ------------------------------------------------------------------ replies
\* the stored history of the message routes: a message of c1 and a reply to it
ReplyHistory ==
    <<MessageRow("c1", "alice", "hello", "TEXT", 1, 0),
      [MessageRow("c1", "bob", "hi", "TEXT", 2, 0) EXCEPT !.replyToId = 1]>>

InitReply == InitChatWith(ReplyHistory)

ReplySend ==
    /\ Len(sendH) < MaxReplySends
    /\ \/ ClientChatSend({1}, {"c1"}, {0, 1, MaxReplySends + 1})
       \/ ClientChatSend({2}, {"c2"}, {0, 1, MaxReplySends + 1})

ReplyForward ==
    \E id \in {m \in DOMAIN ReplyHistory : ReplyHistory[m].replyToId # 0} :
        /\ restCalls < 1
        /\ forwardMessage("bob", id, <<"c1", "c2">>)
        /\ UNCHANGED msgOthers

ReplyNext ==
    \/ ReplySend
    \/ SendIsParticipant
    \/ SendFindReply
    \/ SendCreate
    \/ SendUpdate
    \/ SendFanout
    \/ DeliverUpsert
    \/ ReplyForward

\* alice sends chat:send frames into c1 and bob into c2, without a
\* replyToMessageId, with that of the first message, or with one that no
\* message gets; bob forwards the stored reply into c1 and c2.
ReplySpec == InitReply /\ [][ReplyNext]_vars

\* the replyTo of a pending chat:send names no message of its conversation
BadReply(i) ==
    /\ sendH[i].replyToId # 0
    /\ ~(/\ sendH[i].replyToId \in MsgIds
         /\ messages[sendH[i].replyToId].conversationId = sendH[i].conv)

\* C28: every message with a replyToId is in the conversation of the message
\* it replies to; a chat:send whose replyToMessageId names a missing message
\* or a message of another conversation persists nothing and yields one error
\* frame to the sender.
C28_RepliesInvariant ==
    /\ \A m \in MsgIds :
          messages[m].replyToId # 0 =>
              /\ messages[m].replyToId \in MsgIds
              /\ messages[messages[m].replyToId].conversationId = messages[m].conversationId
    /\ \A m \in DOMAIN msgStore :
          msgStore[m].replyToId # 0 =>
              /\ msgStore[m].replyToId \in DOMAIN msgStore
              /\ msgStore[msgStore[m].replyToId].conversationId = msgStore[m].conversationId
    /\ \A i \in DOMAIN sendH :
          BadReply(i) =>
              /\ sendH[i].pc \in {"isParticipant", "findReply", "failed"}
              /\ sendH[i].msg = 0
              /\ \A k \in RepliesTo(sendH[i].conn, sendH[i].cmid) :
                     outbox[sendH[i].conn][k] = ErrorFrame("SEND_FAILED", sendH[i].cmid)
              /\ Cardinality(RepliesTo(sendH[i].conn, sendH[i].cmid))
                     = IF sendH[i].pc = "failed" THEN 1 ELSE 0

C28_BadReplyStep ==
    \A i \in DOMAIN sendH :
        (sendH[i].pc = "findReply" /\ sendH'[i].pc # "findReply" /\ BadReply(i)) =>
            /\ sendH'[i].pc = "failed"
            /\ messages' = messages
            /\ outbox'[sendH[i].conn]
                   = Append(outbox[sendH[i].conn], ErrorFrame("SEND_FAILED", sendH[i].cmid))

C28_ReplySameConversation == []C28_RepliesInvariant /\ [][C28_BadReplyStep]_vars

\* a chat:send that replied to a message of another conversation has been
\* refused, and the stored reply has been forwarded
C28_Witness ==
    /\ \E i \in DOMAIN sendH :
          /\ sendH[i].replyToId \in MsgIds
          /\ messages[sendH[i].replyToId].conversationId # sendH[i].conv
          /\ sendH[i].pc = "failed"
    /\ \E m \in DOMAIN msgStore : m > Len(ReplyHistory)

\* ------------------------------------------------------------------- blocks
\* Block rows are (blockerId, blockedId) pairs, unique on the pair
isBlocked(rows, userId, targetId) ==
    \E b \in rows : \/ b.blockerId = userId /\ b.blockedId = targetId
                    \/ b.blockerId = targetId /\ b.blockedId = userId

\* blockUser: block.create (rejected on an existing pair), then the contact
\* row of the pair is deleted (contacts are no part of this model)
blockUser(userId, targetId) ==
    IF userId = targetId
    THEN /\ msgCall("blockUser", userId, 0, "VALIDATION_ERROR", "Cannot block yourself")
         /\ UNCHANGED blocks
    ELSE IF [blockerId |-> userId, blockedId |-> targetId] \in blocks
    THEN /\ msgCall("blockUser", userId, 0, "INTERNAL_ERROR", "")
         /\ UNCHANGED blocks
    ELSE /\ blocks' = blocks \cup {[blockerId |-> userId, blockedId |-> targetId]}
         /\ msgCall("blockUser", userId, 0, "OK", "")

\* a user blocks another before any chat frame is sent
BlockCall ==
    \E userId \in {"alice", "bob"}, targetId \in {"alice", "bob"} :
        /\ restCalls < MaxBlockCalls
        /\ nextFrame = 2
        /\ blockUser(userId, targetId)
        /\ UNCHANGED <<msgStore, pager, directVars, groupStore, restClock, authVars, chatVars>>

BlockSend ==
    /\ Len(sendH) < MaxSends
    /\ ClientChatSend({1, 2}, {"c1"}, {0})

BlockNext ==
    \/ BlockCall
    \/ BlockSend
    \/ SendIsParticipant
    \/ SendCreate
    \/ SendUpdate
    \/ SendFanout
    \/ DeliverUpsert

\* alice and bob, the two participants of the direct conversation c1, may
\* block each other and then send chat:send frames into c1.
BlockSpec == InitChat /\ [][BlockNext]_vars

\* C29: while a Block row exists between two users in either direction, no
\* chat:receive frame for a message one of them sent into their direct
\* conversation is written to a connection of the other.
C29_BlockedNotDelivered ==
    [][\A c \in DOMAIN connections :
          \A k \in (Len(outbox[c]) + 1)..Len(outbox'[c]) :
              (/\ outbox'[c][k].type = "chat:receive"
               /\ messages[outbox'[c][k].messageId].conversationId = "c1")
                  => ~isBlocked(blocks, messages[outbox'[c][k].messageId].senderId,
                                ConnUserId(c))]_vars

\* C30: once the close event has removed a connection that never
\* authenticated, its auth timer does no more: no step writes the
\* "Authentication timeout" auth:error frame to its socket or calls close on it.
C30_TimerSilentAfterClose ==
    [][\A c \in ConnIds :
          (readyState[c] = "CLOSED" /\ c \notin DOMAIN connections /\ everAuth[c] = NoUser)
              => /\ closeCalls'[c] = closeCalls[c]
                 /\ ~(/\ Len(outbox'[c]) > Len(outbox[c])
                      /\ outbox'[c][Len(outbox'[c])] = AuthErrorFrame("Authentication timeout"))]_vars

\* ---------------------------------------------------------------- heartbeat
\* wss.clients: the sockets whose close event has not been emitted yet
clients == {c \in ConnIds : readyState[c] \in {"OPEN", "CLOSING"}}

\* ws.isAlive === false
deadAtTick(alive, c) == ~alive[c]

\* one run of the setInterval callback: every socket of wss.clients whose
\* isAlive is false is terminated, every other one gets isAlive = false and
\* a ping
HeartbeatTick ==
    /\ heartbeat.ticks < MaxHeartbeats
    /\ clients # {}
    /\ LET dead == {c \in clients : deadAtTick(isAlive, c)} IN
        /\ readyState' = [c \in ConnIds |-> IF c \in dead THEN "CLOSING" ELSE readyState[c]]
        /\ closeCalls' = [c \in ConnIds |-> IF c \in dead
                                             THEN Append(closeCalls[c], <<0, "heartbeat">>)
                                             ELSE closeCalls[c]]
        /\ isAlive' = [c \in ConnIds |-> IF c \in clients \ dead THEN FALSE ELSE isAlive[c]]
        /\ heartbeat' = [ticks |-> heartbeat.ticks + 1,
                         waiting |-> {c \in clients \ dead : readyState[c] = "OPEN"},
                         missed |-> heartbeat.missed \cup (heartbeat.waiting \cap clients)]
    /\ lastFrame' = NoFrameYet
    /\ UNCHANGED <<hubVars, authTimeout, outbox, ghostVars, typingVars, storeVars, taskVars>>

\* ws.on("pong"): a pong of the peer arrives
Pong ==
    \E c \in ConnIds :
        /\ readyState[c] = "OPEN"
        /\ ~isAlive[c] \/ c \in heartbeat.waiting
        /\ isAlive' = [isAlive EXCEPT ![c] = TRUE]
        /\ heartbeat' = [heartbeat EXCEPT !.waiting = @ \ {c}]
        /\ lastFrame' = NoFrameYet
        /\ UNCHANGED <<hubVars, readyState, authTimeout, outbox, closeCalls, ghostVars,
                       typingVars, storeVars, taskVars>>

TerminatedByHeartbeat(c) ==
    \E i \in DOMAIN closeCalls[c] : closeCalls[c][i][2] = "heartbeat"

\* the close event of a socket the heartbeat has terminated
HeartbeatClose ==
    \E c \in ConnIds :
        /\ TerminatedByHeartbeat(c)
        /\ SocketClose(c)

\* an auth frame on a socket that terminate() has not destroyed
HeartAuth ==
    \E c \in ConnIds, token \in PresenceTokens :
        /\ nextFrame < MaxFrames
        /\ ~TerminatedByHeartbeat(c)
        /\ dispatch(c, TRUE, "auth", TRUE, [NoPayload EXCEPT !.token = token])

HeartNext ==
    \/ HubConnect
    \/ HeartAuth
    \/ HeartbeatTick
    \/ Pong
    \/ HeartbeatClose

\* Clients connect, send auth frames with valid tokens and answer pings or
\* stay silent while the heartbeat ticks.  terminate() destroys the socket,
\* whose close event then follows.
HeartSpec == Init /\ [][HeartNext]_vars /\ WF_vars(HeartbeatClose)

InBothIndices(c) ==
    \/ c \in DOMAIN connections
    \/ \E u \in DOMAIN userConnections : c \in userConnections[u]

C31_SilentTerminated ==
    heartbeat'.ticks = heartbeat.ticks + 1 =>
        \A c \in heartbeat.waiting \cap clients :
            /\ closeCalls'[c] = Append(closeCalls[c], <<0, "heartbeat">>)
            /\ readyState'[c] = "CLOSING"

C31_AnsweringSurvives ==
    \A c \in ConnIds : TerminatedByHeartbeat(c) => c \in heartbeat.missed

C31_TerminatedRemoved ==
    \A c \in ConnIds : [](TerminatedByHeartbeat(c) => <>(~InBothIndices(c)))

\* C31: a connection whose ping of one tick is still unanswered at the next
\* tick is terminated at that tick, and its close event then removes it from
\* the connection index and from the user index; a connection that answered
\* every ping before the next tick is never terminated by the heartbeat.
C31_HeartbeatContract ==
    /\ [][C31_SilentTerminated]_vars
    /\ []C31_AnsweringSurvives
    /\ C31_TerminatedRemoved

\* ------------------------------------------------- typing and disconnection
\* a socket closes while no timer-initiated broadcast is looking up participants
TypingClose ==
    \E c \in {1, 2} :
        /\ closes < MaxCloses
        /\ \A i \in DOMAIN typingT : typingT[i].timer # 0 => typingT[i].pc # "lookup"
        /\ SocketClose(c)

TypingGoneNext ==
    \/ ClientTyping
    \/ TypingClose
    \/ TypingTimerFire
    \/ TypingBroadcast

\* alice and bob send chat:typing frames for c1 and may disconnect; armed
\* timers fire at any later moment.
TypingGoneSpec == InitChat /\ [][TypingGoneNext]_vars

\* C32: a timer-initiated broadcast for a user none of whose connections is
\* left in the hub writes no chat:typing frame.
C32_NoAutoClearWhenOffline ==
    [][\A i \in DOMAIN typingT :
          (/\ typingT[i].timer # 0
           /\ typingT[i].pc = "lookup"
           /\ typingT'[i].pc # "lookup"
           /\ ~isUserOnline(userConnections, typingT[i].userId))
              => outbox' = outbox]_vars

\* ------------------------------------------------------ typing frame order
TypingOrderNext ==
    \/ ClientTyping
    \/ TypingTimerFire
    \/ TypingBroadcast

\* alice and bob send chat:typing frames for c1 over their one connection;
\* the participant lookups of the handlers resolve in any order.
TypingOrderSpec == InitChat /\ [][TypingOrderNext]_vars

\* the positions of the chat:typing frames about (u, conv) written to connection c
TypingFramesAt(c, u, conv) ==
    {k \in DOMAIN outbox[c] : /\ outbox[c][k].type = "chat:typing"
                              /\ outbox[c][k].userId = u
                              /\ outbox[c][k].conversationId = conv}

\* C33: once every broadcast for (u, c1) has completed and the last of them
\* was started for isTyping:false, the last chat:typing frame about (u, c1)
\* that each connection received has isTyping:false.
C33_TypingOrderKept ==
    \A u \in {"alice", "bob"} :
        LET tasks == {i \in DOMAIN typingT : typingT[i].userId = u} IN
        (/\ tasks # {}
         /\ \A i \in tasks : typingT[i].pc = "done"
         /\ \A i \in tasks : (\A j \in tasks : j <= i) => ~typingT[i].isTyping)
            => \A c \in DOMAIN connections :
                   \A k \in TypingFramesAt(c, u, "c1") :
                       (\A l \in TypingFramesAt(c, u, "c1") : l <= k)
                           => ~outbox[c][k].isTyping

\* the refresh calls that presented r and got past the delete of its row
Rotating(r) ==
    {i \in DOMAIN authLog : /\ authLog[i].op = "refresh" /\ authLog[i].token = r
                            /\ \/ authLog[i].pc = "create"
                               \/ authLog[i].pc = "done" /\ authLog[i].code = "OK"}

\* C34: whatever the interleaving of the refresh(r) calls, at most one of
\* them returns a token pair and at most one refresh token row is stored for
\* having presented r.
C34_OneRotationPerToken ==
    \A r \in 1..MaxTokens :
        /\ Cardinality(Rotating(r)) <= 1
        /\ Cardinality({authLog[i].refreshToken : i \in Rotations(r)}) <= 1

\* two refresh(r) calls were past findUnique at the same time; one has
\* returned a pair and the other has failed at its delete
C34_Witness ==
    \E r \in 1..MaxTokens : \E i, j \in DOMAIN authLog :
        /\ i # j
        /\ authLog[i].op = "refresh" /\ authLog[i].token = r
        /\ authLog[i].pc = "done" /\ authLog[i].code = "OK"
        /\ authLog[j].op = "refresh" /\ authLog[j].token = r
        /\ authLog[j].pc = "done" /\ authLog[j].code = "INTERNAL_ERROR"

\* ------------------------------------- overlapping direct conversation calls
\* getOrCreateDirectConversation split at its awaits: findFirst, the lookup of
\* the target user, and conversation.create
raceOthers == <<groupStore, restClock, restCalls, lastCall, authVars, sideVars, chatVars>>

RaceStart ==
    \E a \in {"alice", "bob"}, b \in {"alice", "bob", UnknownUser} :
        /\ Len(directCalls) < MaxRaceCalls
        /\ directCalls' = Append(directCalls,
                                 IF a = b
                                 THEN [userId1 |-> a, userId2 |-> b, pc |-> "done",
                                       code |-> "VALIDATION_ERROR", id |-> 0]
                                 ELSE [userId1 |-> a, userId2 |-> b, pc |-> "findFirst",
                                       code |-> "", id |-> 0])
        /\ UNCHANGED <<directConvs, raceOthers>>

RaceFindFirst ==
    \E i \in DOMAIN directCalls :
        /\ directCalls[i].pc = "findFirst"
        /\ LET existing == existingDirect(directConvs, directCalls[i].userId1,
                                          directCalls[i].userId2)
           IN IF existing # {}
              THEN \E d \in existing :
                       directCalls' = [directCalls EXCEPT ![i].pc = "done", ![i].code = "OK",
                                                          ![i].id = d.id]
              ELSE directCalls' = [directCalls EXCEPT ![i].pc = "findUser"]
        /\ UNCHANGED <<directConvs, raceOthers>>

RaceFindUser ==
    \E i \in DOMAIN directCalls :
        /\ directCalls[i].pc = "findUser"
        /\ directCalls' = IF directCalls[i].userId2 \notin Users
                          THEN [directCalls EXCEPT ![i].pc = "done", ![i].code = "NOT_FOUND"]
                          ELSE [directCalls EXCEPT ![i].pc = "create"]
        /\ UNCHANGED <<directConvs, raceOthers>>

RaceCreate ==
    \E i \in DOMAIN directCalls :
        /\ directCalls[i].pc = "create"
        /\ LET id == Cardinality(directConvs) + 1 IN
            /\ directConvs' = directConvs
                   \cup {[id |-> id,
                          participants |-> <<directCalls[i].userId1, directCalls[i].userId2>>,
                          roles |-> <<roleDefault, roleDefault>>]}
            /\ directCalls' = [directCalls EXCEPT ![i].pc = "done", ![i].code = "OK",
                                                   ![i].id = id]
        /\ UNCHANGED raceOthers

RaceNext ==
    \/ RaceStart
    \/ RaceFindFirst
    \/ RaceFindUser
    \/ RaceCreate

\* alice and bob call getOrCreateDirectConversation at any moment, the calls
\* overlapping.
RaceSpec == Init /\ [][RaceNext]_vars

\* C35: whatever the interleaving of the calls for one pair of users, the
\* store holds at most one DIRECT conversation of the pair and all the calls
\* that returned a conversation returned the same one.
C35_OneDirectPerPair ==
    /\ \A d, e \in directConvs :
          {d.participants[1], d.participants[2]} = {e.participants[1], e.participants[2]}
              => d = e
    /\ \A i, j \in DOMAIN directCalls :
          (/\ directCalls[i].code = "OK" /\ directCalls[j].code = "OK"
           /\ {directCalls[i].userId1, directCalls[i].userId2}
                  = {directCalls[j].userId1, directCalls[j].userId2})
              => directCalls[i].id = directCalls[j].id

\* ------------------------------------------------ updatedAt of conversations
\* no chat:send handler is between its awaits
SendsAtRest == \A i \in DOMAIN sendH : sendH[i].pc \in {"done", "failed"}

\* while no chat:send is running, updatedAt covers the messages they persisted
C36_UpdatedAtCoversSends ==
    SendsAtRest =>
        \A m \in MsgIds : updatedAt[messages[m].conversationId] >= messages[m].createdAt

\* a REST route that persists messages leaves updatedAt at or after them
C36_PersistStep ==
    \A m \in DOMAIN msgStore' \ DOMAIN msgStore :
        updatedAt'[msgStore'[m].conversationId] >= msgStore'[m].createdAt

\* C36: every operation that persists a message advances the conversation's
\* updatedAt: whenever no operation is in progress, updatedAt of a
\* conversation is not earlier than the createdAt of its newest message.
C36_UpdatedAtAdvances == []C36_UpdatedAtCoversSends /\ [][C36_PersistStep]_vars

\* ------------------------------------------------------------------ forward
\* one message in each conversation: alice's in c1, carol's in c2
ForwardHistory ==
    <<MessageRow("c1", "alice", "hello", "TEXT", 1, 0),
      MessageRow("c2", "carol", "hello", "IMAGE", 2, 0)>>

InitForward == InitChatWith(ForwardHistory)

ForwardCall ==
    \E userId \in Users, id \in 1..(Len(ForwardHistory) + 1),
       targets \in {<<"c1">>, <<"c2">>, <<"c1", "c2">>, <<"c2", "c1">>} :
        /\ restCalls < MaxForwardCalls
        /\ forwardMessage(userId, id, targets)
        /\ UNCHANGED msgOthers

ForwardNext == ForwardCall

\* alice and bob are online, carol is not; anyone forwards either stored
\* message, or one that does not exist, into c1, c2 or both.
ForwardSpec == InitForward /\ [][ForwardNext]_vars

\* the frames written to socket c in the step
NewFrames(c) == {outbox'[c][k] : k \in (Len(outbox[c]) + 1)..Len(outbox'[c])}

\* C37: forwardMessage creates a message in a target conversation, and sends
\* chat:receive to the other participants of that conversation, only if the
\* caller is a participant of the original message's conversation and of the
\* target; other targets are left unchanged, and the returned 'forwarded'
\* count is the number of messages created.
C37_ForwardStep ==
    lastCall'.op = "forwardMessage" /\ restCalls' # restCalls =>
        LET caller == lastCall'.actor
            id == lastCall'.id
            created == DOMAIN msgStore' \ DOMAIN msgStore
        IN /\ \A m \in DOMAIN msgStore : msgStore'[m] = msgStore[m]
           /\ \A m \in created :
                  /\ id \in DOMAIN msgStore
                  /\ caller \in participants[msgStore[id].conversationId]
                  /\ caller \in participants[msgStore'[m].conversationId]
                  /\ msgStore'[m].senderId = caller
                  /\ msgStore'[m].content = msgStore[id].content
                  /\ msgStore'[m].contentType = msgStore[id].contentType
           /\ \A c \in ConnIds : \A f \in NewFrames(c) :
                  /\ f.type = "chat:receive"
                  /\ f.messageId \in created
                  /\ c \in DOMAIN connections
                  /\ connections[c].userId
                         \in participants[msgStore'[f.messageId].conversationId] \ {caller}
           /\ \A c \in ConnIds : Len(outbox'[c]) >= Len(outbox[c])
           /\ \A m \in created :
                  \A u \in participants[msgStore'[m].conversationId] \ {caller} :
                      \A c \in ConnIds :
                          (/\ c \in DOMAIN connections /\ connections[c].userId = u
                           /\ readyState[c] = "OPEN")
                              => \E f \in NewFrames(c) : f.messageId = m
           /\ lastCall'.code = "OK" => lastCall'.forwarded = Cardinality(created)
           /\ lastCall'.code # "OK" => created = {}

C37_ForwardOnlyOwnConversations == [][C37_ForwardStep]_vars

\* alice forwarded her message into c1 and c2: one message created, in c1,
\* and bob's socket got its chat:receive
C37_Witness ==
    /\ lastCall.op = "forwardMessage" /\ lastCall.actor = "alice" /\ lastCall.code = "OK"
    /\ lastCall.forwarded = 1
    /\ Len(msgStore) = Len(ForwardHistory) + 1
    /\ msgStore[Len(msgStore)].conversationId = "c1"
    /\ \E k \in DOMAIN outbox[2] :
          outbox[2][k].type = "chat:receive" /\ outbox[2][k].messageId = Len(msgStore)

\* ------------------------------------------------- chat:read notifications
\* the chat:read{messageId: m, readBy: u} frames written to socket c
ReadNotices(c, m, u) == {k \in DOMAIN outbox[c] : outbox[c][k] = ChatReadFrame(m, u)}

NoticeSend ==
    /\ Len(sendH) < 1
    /\ ClientChatSend({1}, {"c1"}, {0})

NoticeRead ==
    /\ Len(readH) < MaxNoticeReads
    /\ ClientChatRead({2}, {"c1"})

NoticeNext ==
    \/ NoticeSend
    \/ SendIsParticipant
    \/ SendCreate
    \/ SendUpdate
    \/ SendFanout
    \/ DeliverUpsert
    \/ NoticeRead
    \/ ReadUpdateMany
    \/ ReadFindTarget
    \/ ReadFindUnread
    \/ ReadUpsert

\* alice (connection 1) sends one chat:send into c1; bob (connection 2) sends
\* chat:read for c1 at any moment, the handlers overlapping.
NoticeSpec == InitChat /\ [][NoticeNext]_vars

\* C38: for each message m and reader u, the sender of m is sent at most one
\* chat:read{messageId: m, readBy: u} over the whole run, also when u sends
\* chat:read for the conversation repeatedly or concurrently.
C38_OneReadNoticePerReader ==
    \A m \in MsgIds, u \in Users, c \in ConnIds : Cardinality(ReadNotices(c, m, u)) <= 1

\* ------------------------------------------------ chat:read by an outsider
OutsiderSend ==
    /\ Len(sendH) + Len(readH) < MaxOutsiderFrames
    /\ ClientChatSend({2}, Convs, {0})

OutsiderRead ==
    /\ Len(sendH) + Len(readH) < MaxOutsiderFrames
    /\ ClientChatRead({1}, Convs)

OutsiderNext ==
    \/ OutsiderSend
    \/ SendIsParticipant
    \/ SendCreate
    \/ SendUpdate
    \/ SendFanout
    \/ DeliverUpsert
    \/ OutsiderRead
    \/ ReadUpdateMany
    \/ ReadFindTarget
    \/ ReadFindUnread
    \/ ReadUpsert

\* bob (connection 2) sends chat:send into c1 and c2; alice (connection 1),
\* a participant of c1 only, sends chat:read for c1 and for c2.
OutsiderSpec == InitChat /\ [][OutsiderNext]_vars

\* C39: a chat:read of a user who is no participant of the conversation
\* writes no receipt and sends no chat:read: every READ receipt (m, u) is of
\* a participant u of m's conversation, and so is every chat:read frame.
C39_ReadOnlyByParticipants ==
    /\ \A r \in receipts :
          r.status = "READ" => r.userId \in participants[messages[r.messageId].conversationId]
    /\ \A c \in ConnIds : \A k \in DOMAIN outbox[c] :
          outbox[c][k].type = "chat:read" =>
              outbox[c][k].userId \in participants[messages[outbox[c][k].messageId].conversationId]

\* ---------------------------------------------- chat:typing by an outsider
\* a chat:typing frame for either conversation
ClientTypingAny ==
    \E c \in {1, 2}, cv \in Convs, isTyping \in BOOLEAN :
        /\ nextFrame < 2 + MaxAnyTyping
        /\ dispatch(c, TRUE, "chat:typing", TRUE,
                    [NoPayload EXCEPT !.conversationId = cv, !.isTyping = isTyping])

TypingAnyNext ==
    \/ ClientTypingAny
    \/ TypingTimerFire
    \/ TypingBroadcast

\* alice (a participant of c1 only) and bob send chat:typing frames for c1
\* and c2.
TypingAnySpec == InitChat /\ [][TypingAnyNext]_vars

\* C40: a chat:typing of a user who is no participant of the conversation is
\* not rebroadcast and arms no timer: every chat:typing frame sent names a
\* participant of its conversation, and so does every armed timer.
C40_TypingOnlyByParticipants ==
    /\ \A c \in ConnIds : \A k \in DOMAIN outbox[c] :
          outbox[c][k].type = "chat:typing" =>
              outbox[c][k].userId \in participants[outbox[c][k].conversationId]
    /\ \A t \in typingTimers : t.key[1] \in participants[t.key[2]]

====
